---------------------------- MODULE Spec2Model ----------------------------
(***************************************************************************)
(* A model of the FlashTrans translation pipeline (src/core_engine.py):    *)
(* CoreEngine's translate entry points, the segmenter _chunk_text, the     *)
(* batched translator invocation, the hypothesis decoder, the             *)
(* postprocessor and the reassembler of _translate_with_chunking; and of   *)
(* the dispatcher of src/main.py: the AppController on the UI thread, the  *)
(* EngineWorker on its QThread and the queued connections between them.    *)
(*                                                                         *)
(* A Python str is a sequence of characters.  A character is a TLA+ string *)
(* naming one code point: "SP" is U+0020, "LF" is "\n", "ta" is the CJK    *)
(* ideograph U+4ED6, "FWCOMMA" is U+FF0C, and so on (see the tables).      *)
(***************************************************************************)
EXTENDS Integers, Sequences, FiniteSets, TLC

VARIABLES
    \* ---- CoreEngine fields (src/core_engine.py:53-76)
    mt_backend,        \* self._mt_backend: "opus" | "nllb" | "none"
    ocr_ready,         \* self._ocr_ready
    en2zh_ready,       \* self._en2zh_ready
    zh2en_ready,       \* self._zh2en_ready
    translator_en2zh,  \* self.translator_en2zh: "None" or a translator
    translator_zh2en,  \* self.translator_zh2en
    sp_en2zh_tgt,      \* self._sp_en2zh_tgt: "None" or a vocabulary model
    sp_zh2en_tgt,      \* self._sp_zh2en_tgt
    last_error,        \* self._last_error
    ocr_error,         \* self._last_ocr_error
    en2zh_error,       \* self._last_en2zh_error
    zh2en_error,       \* self._last_zh2en_error
    \* ---- the public call that has just returned (op = "none": no call)
    call,
    \* ---- a pure function under study, its input and its output
    fn_pc,             \* "in": input drawn, "out": function applied
    fn_in,
    fn_out,
    \* ---- AppController fields (src/main.py:789-797), UI thread
    busy_image,        \* self._busy_image
    next_req_id,       \* self._next_req_id
    pending,           \* self._pending: req_id -> (mode, payload)
    f2_req_id,         \* self._f2_req_id (0: None)
    capturing,         \* the SnippingOverlay is open (self._overlay.begin())
    llm_enabled,       \* self._store.get_llm_enabled()
    \* ---- EngineWorker fields (src/main.py:575-590), worker thread
    local_qwen,        \* self._local_qwen: "None" or "LocalQwen"
    llm_cfg,           \* self._llm_cfg: "None" or "LlmConfig"
    \* ---- the queued connections (src/main.py:805-815)
    worker_queue,      \* slot calls posted to the worker thread, oldest first
    ui_queue,          \* worker signals posted to the UI thread, oldest first
    running,           \* the slot the worker thread is executing
    \* ---- what happened so far
    emitted,           \* the req_ids of the requests, in the order of their emit
    started,           \* the slots that called the engine, in the order they began
    recorded,          \* req_id -> the error its engine call handed to _set_error
    shown              \* req_id -> the message the controller showed for it

appVars == <<busy_image, next_req_id, pending, f2_req_id, capturing, llm_enabled,
             local_qwen, llm_cfg, worker_queue, ui_queue, running, emitted,
             started, recorded, shown>>

vars == <<mt_backend, ocr_ready, en2zh_ready, zh2en_ready, translator_en2zh,
          translator_zh2en, sp_en2zh_tgt, sp_zh2en_tgt, last_error, ocr_error,
          en2zh_error, zh2en_error, call, fn_pc, fn_in, fn_out, appVars>>

configVars == <<mt_backend, ocr_ready, en2zh_ready, zh2en_ready, translator_en2zh,
                translator_zh2en, sp_en2zh_tgt, sp_zh2en_tgt>>

errorVars == <<last_error, ocr_error, en2zh_error, zh2en_error>>

engineVars == <<configVars, errorVars, call>>

fnVars == <<fn_pc, fn_in, fn_out>>

\* No slot is executing on the worker thread.
NoSlot == [slot |-> "none", req_id |-> 0, text |-> <<>>, src_lang |-> "", tgt_lang |-> "", use_api |-> FALSE, stage |-> "none"]

\* The application is not running: no controller, no worker.
AppOff ==
    /\ busy_image = FALSE /\ next_req_id = 1 /\ pending = <<>> /\ f2_req_id = 0
    /\ capturing = FALSE /\ llm_enabled = FALSE
    /\ local_qwen = "None" /\ llm_cfg = "None"
    /\ worker_queue = <<>> /\ ui_queue = <<>> /\ running = NoSlot
    /\ emitted = <<>> /\ started = <<>> /\ recorded = <<>> /\ shown = <<>>

-----------------------------------------------------------------------------
(***************************************************************************)
(* Characters.                                                             *)
(***************************************************************************)

\* The range U+4E00..U+9FFF, the only one the code treats as CJK.  The named
\* ideographs are those of the terminology table, those of the OCR
\* corrections (named with their code points) and six ordinary ones
\* ("ni" U+4F60, "hao" U+597D, "shi4" U+4E16, "jie4" U+754C among them).
ZhChars ==
    {"ta", "hen", "hao", "ni", "shi4", "jie4",
     "yi_4E49", "jian_4EF6", "wen_6587", "gong_5DE5", "shi_8BD5", "chong_91CD",
     "bian", "liang", "wei", "yi", "huo", "sai", "ke", "zhu", "beng",
     "fan", "xiang", "chi", "xi", "ce", "biao", "mian", "xiu", "shi",
     "cu", "cao", "du", "guang", "jie", "gong", "cha"}

\* ASCII letters used by the model ([A-Za-z]).
LowerLetters ==
    {"a", "b", "c", "d", "e", "f", "g", "h", "i", "j", "k", "l", "m", "n",
     "o", "p", "q", "r", "s", "t", "u", "v", "w", "x", "y", "z"}

UpperLetters == {"A", "F", "H", "R", "Y"}

Letters == LowerLetters \cup UpperLetters

Digits == {"1", "2", "3"}

\* str.lower(), one character at a time.
Lower(c) ==
    CASE c = "A" -> "a" [] c = "F" -> "f" [] c = "H" -> "h" [] c = "R" -> "r"
      [] c = "Y" -> "y"
      [] OTHER -> c

LowerStr(s) == [i \in DOMAIN s |-> Lower(s[i])]

\* Control and tag tokens of the translator's vocabulary, each kept whole
\* as one symbol: "</s>", "<pad>" and the NLLB language codes.
TokenAtoms == {"</s>", "<pad>", "eng_Latn", "zho_Hans"}

\* What Python's str.strip() and the regex class \s remove: ASCII
\* whitespace and the Unicode spaces, U+00A0 among them.
WsChars == {"SP", "TAB", "LF", "CR", "NBSP"}

\* The full-width punctuation of the regex class of lines 528-529 (U+FF0C, U+3002, U+FF01, U+FF1F, U+FF1B, U+FF1A, U+3001).
FwPunct == {"FWCOMMA", "FWSTOP", "FWEX", "FWQ", "FWSEMI", "FWCOLON", "DUN"}

\* The ASCII punctuation of the regex class [,.;:!?].
LatinPunct == {",", ".", ";", ":", "!", "?"}

IsZh(c) == c \in ZhChars

HasZh(s) == \E i \in DOMAIN s : IsZh(s[i])

-----------------------------------------------------------------------------
(***************************************************************************)
(* String primitives: what str and re do, on sequences of characters.      *)
(***************************************************************************)

\* The subsequence of s at the positions in K, in order.
Pick(s, K) ==
    LET kept == SelectSeq([i \in DOMAIN s |-> <<i, s[i]>>], LAMBDA p : p[1] \in K)
    IN  [j \in DOMAIN kept |-> kept[j][2]]

\* "".join(parts)
RECURSIVE Join(_)
Join(parts) ==
    IF parts = <<>> THEN <<>> ELSE Head(parts) \o Join(Tail(parts))

\* str.replace(pat, rep) for a non-empty pat: leftmost, non-overlapping.
RECURSIVE ReplaceAll(_, _, _)
ReplaceAll(s, pat, rep) ==
    IF \A i \in 1..(Len(s) - Len(pat) + 1) : SubSeq(s, i, i + Len(pat) - 1) # pat THEN s
    ELSE IF SubSeq(s, 1, Len(pat)) = pat
         THEN rep \o ReplaceAll(SubSeq(s, Len(pat) + 1, Len(s)), pat, rep)
         ELSE <<s[1]>> \o ReplaceAll(Tail(s), pat, rep)

\* s[-1]
Last(s) == s[Len(s)]

\* str.strip(): drop leading and trailing whitespace.
Strip(s) ==
    LET keep == {i \in DOMAIN s : s[i] \notin WsChars}
    IN  IF keep = {} THEN <<>>
        ELSE LET lo == CHOOSE i \in keep : \A j \in keep : i <= j
                 hi == CHOOSE i \in keep : \A j \in keep : j <= i
             IN  SubSeq(s, lo, hi)

\* The character before / after position i; "BOS" / "EOS" off the ends.
CharAt(s, i) ==
    IF i < 1 THEN "BOS" ELSE IF i > Len(s) THEN "EOS" ELSE s[i]

\* The first / last position of the maximal run of characters of set W
\* around position i (s[i] \in W).
RunLo(s, W, i) ==
    CHOOSE l \in 1..i :
        /\ \A k \in l..i : s[k] \in W
        /\ CharAt(s, l - 1) \notin W

RunHi(s, W, i) ==
    CHOOSE h \in i..Len(s) :
        /\ \A k \in i..h : s[k] \in W
        /\ CharAt(s, h + 1) \notin W

\* re.sub(r"(?<=B)W+(?=A)", "", s) and its relatives: delete every maximal
\* run of W-characters whose left neighbour is in Before and whose right
\* neighbour is in After.  (W+ is greedy and the neighbours are outside W,
\* so a match is always a whole maximal run.)
DeleteRuns(s, W, Before, After) ==
    Pick(s, {i \in DOMAIN s :
                ~ /\ s[i] \in W
                  /\ CharAt(s, RunLo(s, W, i) - 1) \in Before
                  /\ CharAt(s, RunHi(s, W, i) + 1) \in After})

\* re.sub(r"[W]{n,}", " ", s): every maximal run of n or more
\* W-characters becomes a single space.
SquashRuns(s, W, n) ==
    LET long(i) == s[i] \in W /\ RunHi(s, W, i) - RunLo(s, W, i) + 1 >= n
        t == [i \in DOMAIN s |-> IF long(i) THEN "SP" ELSE s[i]]
    IN  Pick(t, {i \in DOMAIN s : ~long(i) \/ RunLo(s, W, i) = i})

CollapseRuns(s, W) == SquashRuns(s, W, 2)

\* Every character of the model, and the two ends, as a neighbour.
AllChars == ZhChars \cup Letters \cup Digits \cup WsChars \cup FwPunct
            \cup LatinPunct \cup TokenAtoms
            \cup {"WB", "UNK", "ELL", "_", "BSL", "APOS"}

AnyNeighbour == AllChars \cup {"BOS", "EOS"}

\* re.split(r"(?<=[T])", s): cut after every character of T.  As in
\* Python, a string ending in a T-character yields a last, empty piece.
RECURSIVE SplitAfter(_, _)
SplitAfter(s, T) ==
    IF \E i \in DOMAIN s : s[i] \in T
    THEN LET i == CHOOSE k \in DOMAIN s :
                      s[k] \in T /\ \A j \in 1..(k - 1) : s[j] \notin T
         IN  <<SubSeq(s, 1, i)>> \o SplitAfter(SubSeq(s, i + 1, Len(s)), T)
    ELSE <<s>>

\* s.count(c)
Range(s) == {s[i] : i \in DOMAIN s}

Count(s, c) == Cardinality({i \in DOMAIN s : s[i] = c})

NonBlank(s) == Strip(s) # <<>>

-----------------------------------------------------------------------------
(***************************************************************************)
(* TextSegmenter: CoreEngine._chunk_text.                                  *)
(***************************************************************************)

\* The thresholds of the oversized-chunk rules.
ZhMaxLen == 80
ZhCommaLen == 40
LatinMaxLen == 180

\* The lookbehind class of the sentence split (line 444): U+3002, U+FF01, U+FF1F, "!", "?", U+FF1B, ";", ".", U+2026.
\* Faulty variant: the full-width colon U+FF1A in the place of U+3002.
SentenceEndColon == {"FWCOLON", "FWEX", "FWQ", "!", "?", "FWSEMI", ";", ".", "ELL"}

SentenceEnd == {"FWSTOP", "FWEX", "FWQ", "!", "?", "FWSEMI", ";", ".", "ELL"}

\* text.replace("\r\n", "\n").replace("\r", "\n")
NormalizeNewlines(text) ==
    ReplaceAll(ReplaceAll(text, <<"CR", "LF">>, <<"LF">>), <<"CR">>, <<"LF">>)

\* re.split(r"(\n+)", text) without its empty strings: the maximal runs of
\* line breaks and the spans between them, in order.
RECURSIVE Blocks(_)
Blocks(s) ==
    IF s = <<>> THEN <<>>
    ELSE LET nl(k) == s[k] = "LF"
             n == CHOOSE m \in DOMAIN s :
                      /\ \A k \in 1..m : nl(k) = nl(1)
                      /\ m = Len(s) \/ nl(m + 1) # nl(1)
         IN  <<SubSeq(s, 1, n)>> \o Blocks(SubSeq(s, n + 1, Len(s)))

\* parts.extend(["\n"] * len(block))
\* Faulty variant: a run of line breaks kept as one Break chunk.
BreakChunksOne(block) == <<<<"LF">>>>

BreakChunks(block) == [i \in 1..Len(block) |-> <<"LF">>]

\* Faulty variant: a span without CJK is split after both commas.
ChunkSegLatinBoth(seg0) ==
    LET seg == Strip(seg0)
        has_zh == HasZh(seg)
        comma_count == Count(seg, "FWCOMMA") + Count(seg, ",")
    IN  IF seg = <<>> THEN <<>>
        ELSE IF (has_zh /\ (Len(seg) > ZhMaxLen \/ (comma_count >= 2 /\ Len(seg) > ZhCommaLen)))
                \/ ((~has_zh) /\ Len(seg) > LatinMaxLen)
        THEN SelectSeq(SplitAfter(seg, {"FWCOMMA", ","}), NonBlank)
        ELSE <<seg>>

\* One sentence span: strip, drop if empty, split again if oversized.
ChunkSeg(seg0) ==
    LET seg == Strip(seg0)
        has_zh == HasZh(seg)
        comma_count == Count(seg, "FWCOMMA") + Count(seg, ",")
    IN  IF seg = <<>> THEN <<>>
        ELSE IF has_zh /\ (Len(seg) > ZhMaxLen
                           \/ (comma_count >= 2 /\ Len(seg) > ZhCommaLen))
        THEN SelectSeq(SplitAfter(seg, {"FWCOMMA", ","}), NonBlank)
        ELSE IF (~has_zh) /\ Len(seg) > LatinMaxLen
        THEN SelectSeq(SplitAfter(seg, {","}), NonBlank)
        ELSE <<seg>>

\* Faulty variant: the spans are chunked last to first.
RECURSIVE ChunkSegsBackwards(_)
ChunkSegsBackwards(segs) ==
    IF segs = <<>> THEN <<>> ELSE ChunkSegsBackwards(Tail(segs)) \o ChunkSeg(Head(segs))

RECURSIVE ChunkSegs(_)
ChunkSegs(segs) ==
    IF segs = <<>> THEN <<>> ELSE ChunkSeg(Head(segs)) \o ChunkSegs(Tail(segs))

\* The body of the loop over the blocks.
ChunkBlock(block) ==
    IF block[1] = "LF" THEN BreakChunks(block)
    ELSE ChunkSegs(SplitAfter(block, SentenceEnd))

RECURSIVE ChunkBlocks(_)
ChunkBlocks(blocks) ==
    IF blocks = <<>> THEN <<>>
    ELSE ChunkBlock(Head(blocks)) \o ChunkBlocks(Tail(blocks))

\* return parts or [text]
\* Faulty variant: no fallback to the whole text.
ChunkFallbackNone(parts, text) == parts

ChunkFallback(parts, text) == IF parts = <<>> THEN <<text>> ELSE parts

ChunkText(text0) ==
    LET text == NormalizeNewlines(text0)
    IN  ChunkFallback(ChunkBlocks(Blocks(text)), text)

-----------------------------------------------------------------------------
(***************************************************************************)
(* Query normalizer: CoreEngine._normalize_english_input.                  *)
(***************************************************************************)

\* \w of a str pattern: letters of any script, digits and the underscore.
IsWord(c) == c \in Letters \cup Digits \cup ZhChars \cup {"_"}

\* \b before position i.
WordBoundary(s, i) == IsWord(CharAt(s, i - 1)) # IsWord(CharAt(s, i))

\* A pattern is a sequence of items: <<"lit", c>> (the character c, under
\* re.IGNORECASE), <<"ws">> (\s+), <<"ws0">> (\s*) and <<"opt", c>> (c?).
Lit(word) == [i \in DOMAIN word |-> <<"lit", word[i]>>]

\* The position after the match of pat that starts at i; 0 if none.  (\s+
\* is always followed by a non-space literal and c? by a literal other
\* than c, so the greedy choice is the only one.)
RECURSIVE MatchEnd(_, _, _)
MatchEnd(s, i, pat) ==
    IF pat = <<>> THEN i
    ELSE LET e == Head(pat)
         IN  CASE e[1] = "lit" ->
                    IF i <= Len(s) /\ Lower(s[i]) = e[2]
                    THEN MatchEnd(s, i + 1, Tail(pat)) ELSE 0
               [] e[1] = "ws" ->
                    IF i <= Len(s) /\ s[i] \in WsChars
                    THEN MatchEnd(s, RunHi(s, WsChars, i) + 1, Tail(pat)) ELSE 0
               [] e[1] = "ws0" ->
                    IF i <= Len(s) /\ s[i] \in WsChars
                    THEN MatchEnd(s, RunHi(s, WsChars, i) + 1, Tail(pat))
                    ELSE MatchEnd(s, i, Tail(pat))
               [] e[1] = "opt" ->
                    IF i <= Len(s) /\ Lower(s[i]) = e[2]
                    THEN MatchEnd(s, i + 1, Tail(pat))
                    ELSE MatchEnd(s, i, Tail(pat))

\* re.sub of the pattern  [\b] pre focus post [\b]  by  \1 repl \2  (the
\* groups pre and post are kept as matched), leftmost and non-overlapping.
\* rule = [pre, focus, post, repl, b0, b1].
RECURSIVE RegexSub(_, _, _)
RegexSub(s, i, rule) ==
    IF i > Len(s) THEN <<>>
    ELSE LET a == MatchEnd(s, i, rule.pre)
             b == IF a = 0 THEN 0 ELSE MatchEnd(s, a, rule.focus)
             e == IF b = 0 THEN 0 ELSE MatchEnd(s, b, rule.post)
             hit == /\ e # 0
                    /\ rule.b0 => WordBoundary(s, i)
                    /\ rule.b1 => WordBoundary(s, e)
         IN  IF hit
             THEN SubSeq(s, i, a - 1) \o rule.repl \o SubSeq(s, b, e - 1)
                  \o RegexSub(s, e, rule)
             ELSE <<s[i]>> \o RegexSub(s, i + 1, rule)

\* The mis-transcription corrections of lines 465-481, in order.
PhraseRules ==
    << [pre |-> Lit(<<"c", "a", "n">>) \o <<<<"ws">>>>, focus |-> Lit(<<"r", "o", "l", "l">>), post |-> <<<<"ws">>>> \o Lit(<<"i", "t">>),
        repl |-> <<"s", "c", "r", "o", "l", "l">>, b0 |-> TRUE, b1 |-> TRUE],
       [pre |-> <<>>, focus |-> Lit(<<"r", "o", "l", "l">>), post |-> <<<<"ws">>>> \o Lit(<<"i", "t">>),
        repl |-> <<"s", "c", "r", "o", "l", "l">>, b0 |-> TRUE, b1 |-> TRUE],
       [pre |-> <<>>, focus |-> Lit(<<"y", "o", "u", "SP", "c", "a", "n", "SP", "r", "o", "l", "l">>), post |-> <<>>,
        repl |-> <<"y", "o", "u", "SP", "c", "a", "n", "SP", "s", "c", "r", "o", "l", "l">>, b0 |-> TRUE, b1 |-> TRUE],
       [pre |-> <<>>, focus |-> Lit(<<"w", "h", "a", "t">>) \o <<<<"opt", "APOS">>>> \o Lit(<<"s">>) \o <<<<"ws">>>> \o Lit(<<"t", "h", "e">>) \o <<<<"ws">>>> \o Lit(<<"b", "i", "g">>) \o <<<<"ws">>>> \o Lit(<<"d", "e", "a", "l">>) \o <<<<"ws">>>> \o Lit(<<"w", "i", "t", "h">>) \o <<<<"ws">>>> \o Lit(<<"y", "o", "u", "r">>) \o <<<<"ws">>>> \o Lit(<<"f", "1">>) \o <<<<"ws">>>> \o Lit(<<"a", "n", "d">>) \o <<<<"ws">>>> \o Lit(<<"f", "2">>) \o <<<<"ws">>>> \o Lit(<<"t", "r", "a", "n", "s", "l", "a", "t", "i", "o", "n">>), post |-> <<>>,
        repl |-> <<"w", "h", "y", "SP", "a", "r", "e", "SP", "y", "o", "u", "r", "SP", "F", "1", "SP", "a", "n", "d", "SP", "F", "2", "SP", "t", "r", "a", "n", "s", "l", "a", "t", "i", "o", "n", "SP", "b", "o", "x", "e", "s", "SP", "s", "o", "SP", "b", "i", "g">>, b0 |-> FALSE, b1 |-> FALSE],
       [pre |-> <<>>, focus |-> Lit(<<"t", "h", "e">>) \o <<<<"ws">>>> \o Lit(<<"r", "e", "t", "u", "r", "n">>) \o <<<<"ws">>>> \o Lit(<<"i", "d", "e", "n", "t", "i", "f", "i", "e", "d">>) \o <<<<"ws">>>> \o Lit(<<"a", "f", "t", "e", "r">>) \o <<<<"ws">>>> \o Lit(<<"p", "r", "e", "s", "s", "i", "n", "g">>) \o <<<<"ws">>>> \o Lit(<<"f", "3">>), post |-> <<>>,
        repl |-> <<"t", "h", "e", "SP", "r", "e", "c", "o", "g", "n", "i", "t", "i", "o", "n", "SP", "r", "e", "s", "u", "l", "t", "SP", "a", "f", "t", "e", "r", "SP", "p", "r", "e", "s", "s", "i", "n", "g", "SP", "F", "3">>, b0 |-> TRUE, b1 |-> TRUE],
       [pre |-> <<>>, focus |-> Lit(<<"t", "h", "e", "SP", "d", "o", "c", "u", "m", "e", "n", "t", "SP", "t", "h", "a", "t", "SP", "w", "a", "s", "SP", "p", "a", "c", "k", "e", "d">>), post |-> <<>>,
        repl |-> <<"t", "h", "e", "SP", "p", "a", "c", "k", "a", "g", "e", "d", "SP", "d", "o", "c", "u", "m", "e", "n", "t">>, b0 |-> TRUE, b1 |-> TRUE] >>

RECURSIVE ApplyRules(_, _)
ApplyRules(s, rules) ==
    IF rules = <<>> THEN s
    ELSE ApplyRules(RegexSub(s, 1, Head(rules)), Tail(rules))

PhraseFixes(text) == ApplyRules(text, PhraseRules)

\* re.split(r"(?<=[.!?])\s+", text)
RECURSIVE SplitSentences(_)
SplitSentences(s) ==
    LET cut(i) == s[i] \in WsChars /\ CharAt(s, i - 1) \in {".", "!", "?"}
    IN  IF \E i \in DOMAIN s : cut(i)
        THEN LET i == CHOOSE k \in DOMAIN s :
                          cut(k) /\ \A j \in 1..(k - 1) : ~cut(j)
             IN  <<SubSeq(s, 1, i - 1)>>
                 \o SplitSentences(SubSeq(s, RunHi(s, WsChars, i) + 1, Len(s)))
        ELSE <<s>>

\* The dedup loop of lines 484-492.
\* Faulty variant: repeated sentences kept.
DedupStepKeepAll(deduped, s0) ==
    IF Strip(s0) = <<>> THEN deduped ELSE Append(deduped, Strip(s0))

DedupStep(deduped, s0) ==
    LET st == Strip(s0)
    IN  IF st = <<>> THEN deduped
        ELSE IF deduped # <<>> /\ LowerStr(deduped[Len(deduped)]) = LowerStr(st)
        THEN deduped
        ELSE Append(deduped, st)

RECURSIVE Dedup(_, _)
Dedup(deduped, sentences) ==
    IF sentences = <<>> THEN deduped
    ELSE Dedup(DedupStep(deduped, Head(sentences)), Tail(sentences))

\* " ".join(parts)
RECURSIVE JoinSp(_)
JoinSp(parts) ==
    IF parts = <<>> THEN <<>>
    ELSE IF Len(parts) = 1 THEN parts[1]
    ELSE parts[1] \o <<"SP">> \o JoinSp(Tail(parts))

\* re.sub(r"([,.;:!?])(?=[A-Za-z])", r"\1 ", text)
RECURSIVE SpaceAfterPunct(_, _)
SpaceAfterPunct(s, i) ==
    IF i > Len(s) THEN <<>>
    ELSE (IF s[i] \in LatinPunct /\ CharAt(s, i + 1) \in Letters
          THEN <<s[i], "SP">> ELSE <<s[i]>>) \o SpaceAfterPunct(s, i + 1)

NormalizeEnglishInput(text0) ==
    LET t1 == Strip(SquashRuns(NormalizeNewlines(text0), {"SP", "TAB"}, 1))
        t2 == JoinSp(Dedup(<<>>, SplitSentences(PhraseFixes(t1))))
        t3 == DeleteRuns(t2, WsChars, AnyNeighbour, LatinPunct)
        t4 == SpaceAfterPunct(t3, 1)
    IN  IF t1 = <<>> THEN <<>>
        ELSE Strip(CollapseRuns(t4, {"SP"}))

-----------------------------------------------------------------------------
(***************************************************************************)
(* OCR normalizer: CoreEngine._normalize_ocr_text.                         *)
(***************************************************************************)

\* re.sub(r"\\\s*[nN]\b", " ", text): a backslash, any whitespace, n or N
\* at the end of a word.
OcrArtifactRule ==
    [pre |-> <<>>, focus |-> <<<<"lit", "BSL">>, <<"ws0">>, <<"lit", "n">>>>,
     post |-> <<>>, repl |-> <<"SP">>, b0 |-> FALSE, b1 |-> TRUE]

\* Lines 175-177: a run of three or more line breaks is cut to two, a
\* lone line break becomes a space, and every pair of line breaks becomes
\* one line break.
\* Faulty variant: the pairs of line breaks kept (line 177 left out).
OcrBreaksKeepBlank(s) ==
    LET t1 == Pick(s, {i \in DOMAIN s : s[i] = "LF" => i - RunLo(s, {"LF"}, i) < 2})
    IN  [i \in DOMAIN t1 |->
            IF t1[i] = "LF" /\ CharAt(t1, i - 1) # "LF" /\ CharAt(t1, i + 1) # "LF"
            THEN "SP" ELSE t1[i]]

OcrBreaks(s) ==
    LET t1 == Pick(s, {i \in DOMAIN s : s[i] = "LF" => i - RunLo(s, {"LF"}, i) < 2})
        t2 == [i \in DOMAIN t1 |->
                  IF t1[i] = "LF" /\ CharAt(t1, i - 1) # "LF" /\ CharAt(t1, i + 1) # "LF"
                  THEN "SP" ELSE t1[i]]
    IN  Pick(t2, {i \in DOMAIN t2 : t2[i] = "LF" => (i - RunLo(t2, {"LF"}, i)) % 2 = 0})

\* Lines 180-182: the character-confusion corrections for CJK text.
OcrFixes(s) ==
    IF HasZh(s)
    THEN ReplaceAll(ReplaceAll(s, <<"yi_4E49", "jian_4EF6">>, <<"wen_6587", "jian_4EF6">>),
                    <<"gong_5DE5", "shi_8BD5">>, <<"chong_91CD", "shi_8BD5">>)
    ELSE s

\* str.split(c)
RECURSIVE SplitOn(_, _)
SplitOn(s, c) ==
    IF \E i \in DOMAIN s : s[i] = c
    THEN LET i == CHOOSE k \in DOMAIN s : s[k] = c /\ \A j \in 1..(k - 1) : s[j] # c
         IN  <<SubSeq(s, 1, i - 1)>> \o SplitOn(SubSeq(s, i + 1, Len(s)), c)
    ELSE <<s>>

\* The loop of lines 187-201 from token i on: a lone lowercase letter
\* joins the token before it when that one ends in a letter and the next
\* token does not start with a lowercase letter.
RECURSIVE MergeLoneLetters(_, _, _)
MergeLoneLetters(tokens, i, merged) ==
    IF i > Len(tokens) THEN merged
    ELSE LET tok == Strip(tokens[i])
             lone == /\ Len(tok) = 1
                     /\ tok[1] \in LowerLetters
                     /\ merged # <<>>
                     /\ Last(Last(merged)) \in Letters
                     /\ \/ i + 1 > Len(tokens)
                        \/ tokens[i + 1] = <<>>
                        \/ tokens[i + 1][1] \notin LowerLetters
         IN  IF tok = <<>> THEN MergeLoneLetters(tokens, i + 1, merged)
             ELSE IF lone
             THEN MergeLoneLetters(tokens, i + 1,
                      [k \in DOMAIN merged |->
                          IF k = Len(merged) THEN merged[k] \o tok ELSE merged[k]])
             ELSE MergeLoneLetters(tokens, i + 1, Append(merged, tok))

\* Lines 184-203.
OcrMergeLatin(s) ==
    IF \E i \in DOMAIN s : s[i] \in Letters
    THEN Strip(SquashRuns(JoinSp(MergeLoneLetters(SplitOn(s, "SP"), 1, <<>>)), {"SP"}, 2))
    ELSE s

NormalizeOcrText(text0) ==
    LET t0 == NormalizeNewlines(text0)
        t1 == SquashRuns(t0, {"SP", "TAB"}, 1)
        t2 == RegexSub(t1, 1, OcrArtifactRule)
        t3 == OcrBreaks(t2)
        t4 == Strip(SquashRuns(t3, {"SP"}, 2))
    IN  OcrMergeLatin(OcrFixes(t4))

-----------------------------------------------------------------------------
(***************************************************************************)
(* Postprocessor: CoreEngine._postprocess_translation.                     *)
(***************************************************************************)

\* The chained replace of line 508.
FullWidthOf(c) ==
    CASE c = "," -> "FWCOMMA"
      [] c = "?" -> "FWQ"
      [] c = "!" -> "FWEX"
      [] c = ";" -> "FWSEMI"
      [] c = ":" -> "FWCOLON"
      [] OTHER -> c

\* Faulty variant: every full stop converted, those of an ellipsis too.
LoneDotsAll(s) == [i \in DOMAIN s |-> IF s[i] = "." THEN "FWSTOP" ELSE s[i]]

\* re.sub(r"(?<!\.)\.(?!\.)", U+3002, text)
LoneDots(s) ==
    [i \in DOMAIN s |->
        IF s[i] = "." /\ CharAt(s, i - 1) # "." /\ CharAt(s, i + 1) # "."
        THEN "FWSTOP" ELSE s[i]]

\* term_map, in the insertion order the loop walks it.
TermMap ==
    << <<<<"bian", "liang", "wei", "yi", "huo", "sai">>, <<"bian", "liang", "zhu", "sai", "beng">>>>,
       <<<<"ke", "bian", "wei", "yi", "huo", "sai">>, <<"bian", "liang", "zhu", "sai", "beng">>>>,
       <<<<"ke", "bian", "wei", "yi", "huo", "sai", "beng">>, <<"bian", "liang", "zhu", "sai", "beng">>>>,
       <<<<"bian", "liang", "wei", "yi", "huo", "sai", "beng">>, <<"bian", "liang", "zhu", "sai", "beng">>>>,
       <<<<"fan", "xiang">>, <<"chi", "xi">>>>,
       <<<<"ce", "xi">>, <<"chi", "xi">>>>,
       <<<<"biao", "mian", "xiu", "shi">>, <<"biao", "mian", "cu", "cao", "du">>>>,
       <<<<"biao", "mian", "guang", "jie", "du">>, <<"biao", "mian", "cu", "cao", "du">>>>,
       <<<<"gong", "cha">>, <<"gong", "cha">>>>,
       <<<<"t", "o", "l", "e", "r", "a", "n", "c", "e", "s">>, <<"gong", "cha">>>>,
       <<<<"zhu", "sai">>, <<"zhu", "sai">>>>,
       <<<<"huo", "sai">>, <<"zhu", "sai">>>>,
       <<<<"beng">>, <<"beng">>>> >>

\* for wrong, correct in term_map.items(): text = text.replace(wrong, correct)
RECURSIVE ApplyTerms(_, _)
ApplyTerms(s, terms) ==
    IF terms = <<>> THEN s
    ELSE ApplyTerms(ReplaceAll(s, Head(terms)[1], Head(terms)[2]), Tail(terms))

\* Lines 501-505: the artifact replacements and the first collapse.
PostClean(text) ==
    LET t1 == ReplaceAll(text, <<"NBSP">>, <<"SP">>)
        t2 == ReplaceAll(t1, <<"WB">>, <<"SP">>)
        t3 == ReplaceAll(t2, <<"UNK">>, <<>>)
        t4 == ReplaceAll(t3, <<"?", "?">>, <<>>)
    IN  CollapseRuns(t4, {"SP", "TAB"})

\* Lines 506-526: the CJK branch.
PostZh(text) ==
    IF HasZh(text)
    THEN ApplyTerms(LoneDots([i \in DOMAIN text |-> FullWidthOf(text[i])]), TermMap)
    ELSE text

\* Faulty variant: whitespace before ASCII punctuation is kept.
PostSpacingKeepLatin(text) ==
    LET t1 == DeleteRuns(text, WsChars, ZhChars, ZhChars)
        t2 == DeleteRuns(t1, WsChars, AnyNeighbour, FwPunct)
        t3 == DeleteRuns(t2, WsChars, FwPunct, AnyNeighbour)
    IN  DeleteRuns(t3, WsChars, ZhChars, ZhChars)

\* Lines 527-531: the spacing rules.
PostSpacing(text) ==
    LET t1 == DeleteRuns(text, WsChars, ZhChars, ZhChars)
        t2 == DeleteRuns(t1, WsChars, AnyNeighbour, FwPunct)
        t3 == DeleteRuns(t2, WsChars, FwPunct, AnyNeighbour)
        t4 == DeleteRuns(t3, WsChars, AnyNeighbour, LatinPunct)
    IN  DeleteRuns(t4, WsChars, ZhChars, ZhChars)

\* Lines 532-539: the chained replace of a full-width mark and one space.
RECURSIVE DropSpaceAfter(_, _)
DropSpaceAfter(s, marks) ==
    IF marks = <<>> THEN s
    ELSE DropSpaceAfter(ReplaceAll(s, <<Head(marks), "SP">>, <<Head(marks)>>),
                        Tail(marks))

PostprocessTranslation(text) ==
    Strip(DropSpaceAfter(PostSpacing(PostZh(PostClean(text))),
                         <<"FWCOMMA", "FWSTOP", "FWQ", "FWEX", "FWSEMI", "FWCOLON">>))

-----------------------------------------------------------------------------
(***************************************************************************)
(* Reassembler: the tail of CoreEngine._translate_with_chunking.           *)
(***************************************************************************)

\* The characters of the punctuation string of line 408.
MergePunct == FwPunct \cup LatinPunct

\* Whether the loop puts " " before a non-empty text part (lines 404-412).
\* Faulty variant: the ideograph test left out.
NeedsSpaceAnyScript(merged_parts, part) ==
    /\ merged_parts # <<>>
    /\ Last(merged_parts) \notin {<<"LF">>, <<"SP">>}
    /\ Last(Last(merged_parts)) \notin MergePunct

\* Faulty variant: the punctuation test left out.
NeedsSpaceAfterPunct(merged_parts, part) ==
    /\ merged_parts # <<>>
    /\ Last(merged_parts) \notin {<<"LF">>, <<"SP">>}
    /\ ~(IsZh(Last(Last(merged_parts))) /\ IsZh(part[1]))

NeedsSpace(merged_parts, part) ==
    /\ merged_parts # <<>>
    /\ Last(merged_parts) \notin {<<"LF">>, <<"SP">>}
    /\ Last(Last(merged_parts)) \notin MergePunct
    /\ ~(IsZh(Last(Last(merged_parts))) /\ IsZh(part[1]))

\* One turn of the loop over out_by_chunk (lines 398-413).
MergeStep(merged_parts, part) ==
    IF part = <<>> THEN merged_parts
    ELSE IF part = <<"LF">> THEN Append(merged_parts, <<"LF">>)
    ELSE IF NeedsSpace(merged_parts, part)
         THEN merged_parts \o <<<<"SP">>, part>>
         ELSE Append(merged_parts, part)

RECURSIVE MergeParts(_, _)
MergeParts(merged_parts, slots) ==
    IF slots = <<>> THEN merged_parts
    ELSE MergeParts(MergeStep(merged_parts, Head(slots)), Tail(slots))

\* Lines 415-419.
\* Faulty variant: the spaces before a line break kept (line 417 left out).
MergeCleanupKeepSpace(merged) ==
    LET m1 == CollapseRuns(merged, {"SP", "TAB"})
        m3 == DeleteRuns(m1, {"SP"}, {"LF"}, AnyNeighbour)
    IN  Strip(m3)

MergeCleanup(merged) ==
    LET m1 == CollapseRuns(merged, {"SP", "TAB"})
        m2 == DeleteRuns(m1, {"SP"}, AnyNeighbour, {"LF"})
        m3 == DeleteRuns(m2, {"SP"}, {"LF"}, AnyNeighbour)
    IN  Strip(m3)

Reassemble(out_by_chunk) == MergeCleanup(Join(MergeParts(<<>>, out_by_chunk)))

-----------------------------------------------------------------------------
(***************************************************************************)
(* TokenAdapter, batch invocation and HypothesisDecoder: the head of       *)
(* CoreEngine._translate_with_chunking.                                    *)
(*                                                                         *)
(* A token is a string.  The vocabulary models and the translator are      *)
(* external; each call's environment env = [enc, tr, dec] picks how they   *)
(* behave during that call.                                                *)
(***************************************************************************)

EOS == <<"</s>">>
PAD == <<"<pad>">>

\* t.startswith("__") and t.endswith("__")
IsSentinel(t) ==
    /\ Len(t) >= 2
    /\ t[1] = "_" /\ t[2] = "_"
    /\ t[Len(t) - 1] = "_" /\ t[Len(t)] = "_"

SentinelToken == <<"_", "_", "z", "h", "_", "_">>

\* sp_src.encode_as_pieces(ch): one piece per character, a space becoming
\* the word-boundary glyph, the first piece carrying the glyph as prefix.
\*   "eos":        the vocabulary model appends "</s>" itself;
\*   "zero_punct": a chunk without a letter or ideograph has no pieces.
Pieces(ch) ==
    [i \in DOMAIN ch |->
        IF i = 1 THEN <<"WB", ch[1]>>
        ELSE IF ch[i] = "SP" THEN <<"WB">> ELSE <<ch[i]>>]

EncodeAsPieces(enc, ch) ==
    CASE enc = "eos" -> Append(Pieces(ch), EOS)
      [] enc = "zero_punct" ->
            IF \E i \in DOMAIN ch : ch[i] \in Letters \cup ZhChars
            THEN Pieces(ch) ELSE <<>>
      [] OTHER -> Pieces(ch)

\* Lines 352-356: encode, prepend the source tags, append "</s>".
\* Faulty variant: "</s>" appended whatever the last token is.
BuildSeqAlwaysEos(enc, ch, source_prefix_tokens) ==
    Append(source_prefix_tokens \o EncodeAsPieces(enc, ch), EOS)

BuildSeq(enc, ch, source_prefix_tokens) ==
    LET t0 == EncodeAsPieces(enc, ch)
        t1 == IF source_prefix_tokens # <<>>
              THEN source_prefix_tokens \o t0 ELSE t0
    IN  IF t1 # <<>> /\ Last(t1) # EOS THEN Append(t1, EOS) ELSE t1

\* Whether the loop hands chunk i to the encoder (lines 346-351).
IsEncoded(chunks, i) == chunks[i] # <<"LF">> /\ Strip(chunks[i]) # <<>>

\* Lines 359-360: record the sequence and the chunk it came from.
\* Faulty variant: every sequence recorded for the first chunk.
RecordSeqShifted(acc, tokens, i) ==
    [token_lists |-> Append(acc.token_lists, tokens),
     token_to_chunk |-> Append(acc.token_to_chunk, 1)]

RecordSeq(acc, tokens, i) ==
    [token_lists |-> Append(acc.token_lists, tokens),
     token_to_chunk |-> Append(acc.token_to_chunk, i)]

\* The loop of lines 345-360.
EncodeLoop(enc, chunks, source_prefix_tokens) ==
    LET F[i \in 0..Len(chunks)] ==
            IF i = 0 THEN [token_lists |-> <<>>, token_to_chunk |-> <<>>]
            ELSE IF ~IsEncoded(chunks, i) THEN F[i - 1]
            ELSE LET tokens == BuildSeq(enc, Strip(chunks[i]), source_prefix_tokens)
                 IN  IF tokens = <<>> THEN F[i - 1]
                     ELSE RecordSeq(F[i - 1], tokens, i)
    IN  F[Len(chunks)]

\* out_by_chunk after the loop: "\n" for a break, "" for the rest.
InitialSlots(chunks) ==
    [i \in DOMAIN chunks |-> IF chunks[i] = <<"LF">> THEN <<"LF">> ELSE <<>>]

\* translator.translate_batch(token_lists, ..., target_prefix): the list of
\* results, each the list of its hypotheses (best first).
\*   "echo":       the source pieces come back, after the target prefix;
\*   "noisy":      as echo, between tags, a sentinel and "</s>";
\*   "empty_hyp":  every result has no hypothesis;
\*   "tags_only":  every hypothesis holds only tags and sentinels;
\*   "short":      the last result is missing.
SourceBody(seq, source_prefix_tokens) ==
    LET n == Len(source_prefix_tokens)
        body == SubSeq(seq, n + 1, Len(seq))
    IN  SelectSeq(body, LAMBDA t : t # EOS)

PrefixOf(target_prefix_token) ==
    IF target_prefix_token = "" THEN <<>> ELSE <<<<target_prefix_token>>>>

TranslateBatch(tr, token_lists, target_prefix_token, source_prefix_tokens) ==
    LET echo(j) == PrefixOf(target_prefix_token)
                   \o SourceBody(token_lists[j], source_prefix_tokens)
        noisy(j) == source_prefix_tokens \o PrefixOf(target_prefix_token)
                    \o <<SentinelToken>>
                    \o SourceBody(token_lists[j], source_prefix_tokens)
                    \o <<SentinelToken, EOS>>
        tags == PrefixOf(target_prefix_token) \o <<SentinelToken>>
        n == Len(token_lists)
    IN  CASE tr = "echo" -> [j \in 1..n |-> <<echo(j)>>]
          [] tr = "noisy" -> [j \in 1..n |-> <<noisy(j)>>]
          [] tr = "empty_hyp" -> [j \in 1..n |-> <<>>]
          [] tr = "tags_only" -> [j \in 1..n |-> <<tags>>]
          [] tr = "short" -> [j \in 1..(n - 1) |-> <<echo(j)>>]
          [] OTHER -> <<>>

\* Lines 377-379: the best hypothesis of result res_idx, if there is one.
BestHyp(results, res_idx) ==
    IF results # <<>> /\ res_idx <= Len(results) /\ results[res_idx] # <<>>
    THEN results[res_idx][1] ELSE <<>>

\* Lines 380-384.
DropLeadingSet(target_prefix_token, source_prefix_tokens) ==
    (IF target_prefix_token # "" THEN {<<target_prefix_token>>} ELSE {})
    \cup {source_prefix_tokens[k] : k \in DOMAIN source_prefix_tokens}

\* Lines 385-386.
RECURSIVE DropLeading(_, _)
DropLeading(hyp, drop) ==
    IF hyp # <<>> /\ hyp[1] \in drop THEN DropLeading(Tail(hyp), drop) ELSE hyp

\* Lines 385-388: the hypothesis without leading tags and sentinels.
StripHyp(hyp, target_prefix_token, source_prefix_tokens) ==
    SelectSeq(DropLeading(hyp, DropLeadingSet(target_prefix_token, source_prefix_tokens)),
              LAMBDA t : ~IsSentinel(t))

\* sp_tgt.decode_pieces(pieces): the pieces joined, the glyph a space.
DecodePieces(pieces) == ReplaceAll(Join(pieces), <<"WB">>, <<"SP">>)

\* CoreEngine._detokenize_ct2
DetokenizeCt2(tokens) ==
    Strip(ReplaceAll(Join(SelectSeq(tokens, LAMBDA t : t # <<>> /\ t # EOS /\ t # PAD)),
                     <<"WB">>, <<"SP">>))

\* Lines 391-394.
DecodeHyp(hyp, has_sp_tgt) ==
    IF has_sp_tgt
    THEN Strip(DecodePieces(SelectSeq(hyp, LAMBDA t : t # EOS /\ t # PAD)))
    ELSE DetokenizeCt2(hyp)

\* Line 395: out_by_chunk[chunk_idx] = out
StoreSlot(slots, chunk_idx, out) ==
    [i \in DOMAIN slots |-> IF i = chunk_idx THEN out ELSE slots[i]]

\* The loop of lines 376-395 over token_to_chunk.
DecodeLoop(results, token_to_chunk, slots0, has_sp_tgt, target_prefix_token, source_prefix_tokens) ==
    LET F[j \in 0..Len(token_to_chunk)] ==
            IF j = 0 THEN slots0
            ELSE LET hyp == StripHyp(BestHyp(results, j), target_prefix_token,
                                     source_prefix_tokens)
                 IN  IF hyp = <<>> THEN F[j - 1]
                     ELSE StoreSlot(F[j - 1], token_to_chunk[j],
                                    PostprocessTranslation(DecodeHyp(hyp, has_sp_tgt)))
    IN  F[Len(token_to_chunk)]

\* Lines 362-375: the batches handed to translate_batch during one call.
\* Faulty variant: one translate_batch call per sequence.
IssueBatchesPerChunk(token_lists) == [j \in DOMAIN token_lists |-> <<token_lists[j]>>]

IssueBatches(token_lists) == IF token_lists # <<>> THEN <<token_lists>> ELSE <<>>

\* CoreEngine._translate_with_chunking: what it returns or that it raises,
\* with the intermediate values of the run.
NoRun ==
    [raised |-> FALSE, result |-> <<>>, chunks |-> <<>>, token_lists |-> <<>>,
     token_to_chunk |-> <<>>, batches |-> <<>>, results |-> <<>>,
     out_by_chunk |-> <<>>, has_sp_tgt |-> FALSE, target_prefix_token |-> "",
     source_prefix_tokens |-> <<>>]

TranslateWithChunking(text0, env, has_sp_tgt, target_prefix_token, source_prefix_tokens) ==
    LET text == Strip(text0)
        chunks == ChunkText(text)
        enc_raises == env.enc = "raise" /\ \E i \in DOMAIN chunks : IsEncoded(chunks, i)
        seqs == EncodeLoop(env.enc, chunks, source_prefix_tokens)
        batches == IssueBatches(seqs.token_lists)
        tr_raises == batches # <<>> /\ env.tr = "raise"
        results == IF batches = <<>> THEN <<>>
                   ELSE TranslateBatch(env.tr, seqs.token_lists, target_prefix_token,
                                       source_prefix_tokens)
        dec_raises ==
            /\ env.dec = "raise" /\ has_sp_tgt
            /\ \E j \in DOMAIN seqs.token_to_chunk :
                  StripHyp(BestHyp(results, j), target_prefix_token,
                           source_prefix_tokens) # <<>>
        slots == DecodeLoop(results, seqs.token_to_chunk, InitialSlots(chunks),
                            has_sp_tgt, target_prefix_token, source_prefix_tokens)
        entered == [NoRun EXCEPT !.has_sp_tgt = has_sp_tgt,
                                 !.target_prefix_token = target_prefix_token,
                                 !.source_prefix_tokens = source_prefix_tokens,
                                 !.chunks = chunks]
        encoded == [entered EXCEPT !.token_lists = seqs.token_lists,
                                   !.token_to_chunk = seqs.token_to_chunk,
                                   !.batches = batches]
    IN  IF text = <<>> THEN NoRun
        ELSE IF enc_raises THEN [entered EXCEPT !.raised = TRUE]
        ELSE IF tr_raises THEN [encoded EXCEPT !.raised = TRUE]
        ELSE IF dec_raises THEN [encoded EXCEPT !.raised = TRUE, !.results = results]
        ELSE [encoded EXCEPT !.results = results, !.out_by_chunk = slots,
                             !.result = Reassemble(slots)]

\* CoreEngine._translate_nllb: raises ValueError on a missing language code.
TranslateNllbInner(text, src_lang, tgt_lang, env, has_sp_tgt) ==
    IF src_lang = "" \/ tgt_lang = ""
    THEN [NoRun EXCEPT !.raised = TRUE]
    ELSE TranslateWithChunking(text, env, has_sp_tgt, tgt_lang, <<<<src_lang>>>>)

-----------------------------------------------------------------------------
(***************************************************************************)
(* CoreEngine: construction and the public translate calls.                *)
(***************************************************************************)

\* Bounds of the engine specification.
MaxTextLen == 2

\* U+0020, "\n", an ideograph, a sentence terminator.
EngineChars == {"LF", "ta", "."}

StringsUpTo(A, n) == UNION {[1..k -> A] : k \in 0..n}

\* Longer texts, beside every text over EngineChars: with spaces, with
\* line breaks between and around texts, with several sentences.
LongerTexts ==
    {<<"SP">>, <<"SP", "LF">>, <<"ta", "SP", "ta">>, <<"ta", ".", "SP", "ta">>,
     <<".", "LF", "ta">>, <<"ta", "LF", "ta">>, <<"ta", "LF", "LF", "ta">>,
     <<"LF", "ta", "LF">>, <<"ta", ".", "ta">>, <<".", ".", "ta">>}

EngineTexts == StringsUpTo(EngineChars, MaxTextLen) \cup LongerTexts

\* How the vocabulary models and the translator behave during one call.
Envs ==
    {[enc |-> "raise", tr |-> "echo", dec |-> "ok"],
     [enc |-> "pieces", tr |-> "echo", dec |-> "raise"]}
    \cup {[enc |-> e, tr |-> "echo", dec |-> "ok"] :
            e \in {"pieces", "eos", "zero_punct"}}
    \cup {[enc |-> "pieces", tr |-> t, dec |-> "ok"] :
            t \in {"noisy", "empty_hyp", "tags_only", "short", "raise"}}

\* str(e) of the exception of a failed _load_ct2_translator.
LoadErrors == {"Model directory not found"}

\* The defaults of nllb_src_lang_en and nllb_tgt_lang_zh (lines 50-51).
NllbSrcLangEn == "eng_Latn"
NllbTgtLangZh == "zho_Hans"

\* The (src_lang, tgt_lang) arguments a caller of translate_nllb passes.
NllbLangPairs ==
    {<<"eng_Latn", "zho_Hans">>, <<"", "zho_Hans">>, <<"eng_Latn", "">>}

NoEnv == [enc |-> "none", tr |-> "none", dec |-> "none"]

\* The exception a call lets escape: its class and its message.  The
\* class is "Exception" for whatever the tokenizer or the translator threw.
NoExc == [kind |-> "none", msg |-> ""]

\* What is kept of a public call: its arguments, the environment it met,
\* what it returned or that it raised (and what), and the run of the
\* pipeline if the call got that far (ran).
NoCall ==
    [op |-> "none", text |-> <<>>, env |-> NoEnv, ret |-> <<>>,
     raised |-> FALSE, exc |-> NoExc, ran |-> FALSE, run |-> NoRun]

\* CoreEngine.__init__ and _init_all (lines 53-78, 207-284): the fields
\* after construction, for each outcome of the three loads.
InitEngine ==
    /\ mt_backend \in {"opus", "nllb", "none"}
    /\ ocr_ready \in BOOLEAN
    /\ ocr_error = IF ocr_ready THEN "" ELSE "RapidOCR init failed"
    /\ \E ok_a, ok_b \in BOOLEAN, err_a, err_b \in LoadErrors :
          \* tgt_model is a file _pick_first_existing found, or src_model:
          \* line 315 finds it, and sp_tgt is loaded with the translator.
          CASE mt_backend = "none" ->
                /\ en2zh_ready = FALSE /\ zh2en_ready = FALSE
                /\ translator_en2zh = "None" /\ translator_zh2en = "None"
                /\ sp_en2zh_tgt = "None" /\ sp_zh2en_tgt = "None"
                /\ en2zh_error = "" /\ zh2en_error = ""
                /\ last_error = ocr_error
            [] mt_backend = "nllb" ->
                /\ en2zh_ready = ok_a /\ zh2en_ready = ok_a
                /\ translator_en2zh = IF ok_a THEN "ct2_nllb" ELSE "None"
                /\ translator_zh2en = translator_en2zh
                /\ sp_en2zh_tgt = IF ok_a THEN "sp_tgt" ELSE "None"
                /\ sp_zh2en_tgt = sp_en2zh_tgt
                /\ en2zh_error = IF ok_a THEN "" ELSE err_a
                /\ zh2en_error = ""
                /\ last_error = IF ok_a THEN ocr_error ELSE err_a
            [] OTHER ->
                /\ en2zh_ready = ok_a /\ zh2en_ready = ok_b
                /\ translator_en2zh = IF ok_a THEN "ct2_en2zh" ELSE "None"
                /\ translator_zh2en = IF ok_b THEN "ct2_zh2en" ELSE "None"
                /\ sp_en2zh_tgt = IF ok_a THEN "sp_tgt" ELSE "None"
                /\ sp_zh2en_tgt = IF ok_b THEN "sp_tgt" ELSE "None"
                /\ en2zh_error = IF ok_a THEN "" ELSE err_a
                /\ zh2en_error = IF ok_b THEN "" ELSE err_b
                /\ last_error = IF ~ok_b THEN err_b
                                ELSE IF ~ok_a THEN err_a ELSE ocr_error
    /\ call = NoCall

FnIdle == fn_pc = "off" /\ fn_in = <<>> /\ fn_out = <<>>

Init == InitEngine /\ FnIdle /\ AppOff

\* CoreEngine.status (lines 80-89).
Status ==
    [ocr_ready |-> ocr_ready, en2zh_ready |-> en2zh_ready,
     zh2en_ready |-> zh2en_ready, last_error |-> last_error,
     ocr_error |-> ocr_error, en2zh_error |-> en2zh_error,
     zh2en_error |-> zh2en_error]

\* CoreEngine._set_error for kind = "en2zh" / "zh2en".
\* Faulty variant: the message stored for both directions.
SetErrorEn2ZhBoth(msg) ==
    /\ last_error' = msg
    /\ en2zh_error' = msg
    /\ zh2en_error' = msg
    /\ UNCHANGED ocr_error

SetErrorEn2Zh(msg) ==
    /\ last_error' = msg
    /\ en2zh_error' = msg
    /\ UNCHANGED <<ocr_error, zh2en_error>>

SetErrorZh2En(msg) ==
    /\ last_error' = msg
    /\ zh2en_error' = msg
    /\ UNCHANGED <<ocr_error, en2zh_error>>

\* `self._last_en2zh_error or "EN->ZH translator not ready"`
\* Faulty variant: the stored error used even when it is empty.
NotReadyMsgStale(stored, fallback) == stored

NotReadyMsg(stored, fallback) == IF stored # "" THEN stored ELSE fallback

\* The call returns ret / lets an exception escape.
Returned(op, text, env, ret, run, ran) ==
    call' = [op |-> op, text |-> text, env |-> env, ret |-> ret,
             raised |-> FALSE, exc |-> NoExc, ran |-> ran, run |-> run]

Raised(op, text, env, run, ran, exc) ==
    call' = [op |-> op, text |-> text, env |-> env, ret |-> <<>>,
             raised |-> TRUE, exc |-> exc, ran |-> ran, run |-> run]

\* raise RuntimeError(msg)
RuntimeError(msg) == [kind |-> "RuntimeError", msg |-> msg]

\* What escapes a run that raised: the ValueError of line 423, or the
\* exception of the tokenizer or the translator.
RunExc(src_lang, tgt_lang) ==
    IF src_lang = "" \/ tgt_lang = ""
    THEN [kind |-> "ValueError", msg |-> "Missing NLLB language codes"]
    ELSE [kind |-> "Exception", msg |-> ""]

\* try: return <pipeline> / except Exception: _set_error(...); return ""
\* (lines 101-107 and 119-125): what the call does with the run.
\* Faulty variant: no except clause.
GuardedNoCatch(run) ==
    IF run.raised THEN [ret |-> <<>>, raised |-> TRUE, failed |-> FALSE]
    ELSE [ret |-> run.result, raised |-> FALSE, failed |-> FALSE]

Guarded(run) ==
    IF run.raised THEN [ret |-> <<>>, raised |-> FALSE, failed |-> TRUE]
    ELSE [ret |-> run.result, raised |-> FALSE, failed |-> FALSE]

\* The try block of translate_en2zh (lines 102-104).
RunEn2Zh(text, env) ==
    IF mt_backend = "nllb"
    THEN TranslateNllbInner(text, NllbSrcLangEn, NllbTgtLangZh, env,
                            sp_en2zh_tgt # "None")
    ELSE TranslateWithChunking(text, env, sp_en2zh_tgt # "None", "", <<>>)

\* The try block of translate_zh2en (lines 120-122).  In the NLLB mode
\* _translate_nllb uses the en2zh translator and vocabulary models.
RunZh2En(text, env) ==
    IF mt_backend = "nllb"
    THEN TranslateNllbInner(text, NllbTgtLangZh, NllbSrcLangEn, env,
                            sp_en2zh_tgt # "None")
    ELSE TranslateWithChunking(text, env, sp_zh2en_tgt # "None", "", <<>>)

\* CoreEngine.translate_en2zh (lines 91-107).
TranslateEn2Zh(text0, env) ==
    /\ call.op = "none"
    /\ \E text \in {NormalizeEnglishInput(text0)} :
          IF text = <<>>
          THEN /\ Returned("en2zh", text0, env, <<>>, NoRun, FALSE)
               /\ UNCHANGED errorVars
          ELSE IF mt_backend = "none"
          THEN /\ SetErrorEn2Zh("Translation backend disabled")
               /\ Returned("en2zh", text0, env, <<>>, NoRun, FALSE)
          ELSE IF ~en2zh_ready \/ translator_en2zh = "None"
          THEN /\ SetErrorEn2Zh(NotReadyMsg(en2zh_error, "EN->ZH translator not ready"))
               /\ Returned("en2zh", text0, env, <<>>, NoRun, FALSE)
          ELSE \E run \in {RunEn2Zh(text, env)} : \E g \in {Guarded(run)} :
               /\ IF g.failed THEN SetErrorEn2Zh("EN->ZH translation failed")
                  ELSE UNCHANGED errorVars
               /\ IF g.raised THEN Raised("en2zh", text0, env, run, TRUE, RunExc("-", "-"))
                  ELSE Returned("en2zh", text0, env, g.ret, run, TRUE)
    /\ UNCHANGED <<configVars, fnVars, appVars>>

\* CoreEngine.translate_zh2en (lines 109-125).
TranslateZh2En(text0, env) ==
    /\ call.op = "none"
    /\ \E text \in {Strip(text0)} :
          IF text = <<>>
          THEN /\ Returned("zh2en", text0, env, <<>>, NoRun, FALSE)
               /\ UNCHANGED errorVars
          ELSE IF mt_backend = "none"
          THEN /\ SetErrorZh2En("Translation backend disabled")
               /\ Returned("zh2en", text0, env, <<>>, NoRun, FALSE)
          ELSE IF ~zh2en_ready \/ translator_zh2en = "None"
          THEN /\ SetErrorZh2En(NotReadyMsg(zh2en_error, "ZH->EN translator not ready"))
               /\ Returned("zh2en", text0, env, <<>>, NoRun, FALSE)
          ELSE \E run \in {RunZh2En(text, env)} : \E g \in {Guarded(run)} :
               /\ IF g.failed THEN SetErrorZh2En("ZH->EN translation failed")
                  ELSE UNCHANGED errorVars
               /\ IF g.raised THEN Raised("zh2en", text0, env, run, TRUE, RunExc("-", "-"))
                  ELSE Returned("zh2en", text0, env, g.ret, run, TRUE)
    /\ UNCHANGED <<configVars, fnVars, appVars>>

\* CoreEngine.translate_nllb (lines 161-169): the one entry point that
\* lets an exception reach its caller.
\* Faulty variant: the backend and readiness tests made before the blank test.
TranslateNllbChecksFirst(text0, src_lang, tgt_lang, env) ==
    /\ call.op = "none"
    /\ \E text \in {Strip(text0)} :
          IF mt_backend # "nllb"
          THEN Raised("nllb", text0, env, NoRun, FALSE, RuntimeError("NLLB backend not enabled"))
          ELSE IF ~en2zh_ready \/ translator_en2zh = "None"
          THEN Raised("nllb", text0, env, NoRun, FALSE,
                      RuntimeError(NotReadyMsg(en2zh_error, "NLLB translator not ready")))
          ELSE IF text = <<>>
          THEN Returned("nllb", text0, env, <<>>, NoRun, FALSE)
          ELSE \E run \in {TranslateNllbInner(text, src_lang, tgt_lang, env,
                                                sp_en2zh_tgt # "None")} :
               IF run.raised
               THEN Raised("nllb", text0, env, run, TRUE, RunExc(src_lang, tgt_lang))
               ELSE Returned("nllb", text0, env, run.result, run, TRUE)
    /\ UNCHANGED <<configVars, errorVars, fnVars, appVars>>

\* Faulty variant: the two tests answered as the directional entry points
\* answer them, with the empty string and a recorded error.
TranslateNllbSilent(text0, src_lang, tgt_lang, env) ==
    /\ call.op = "none"
    /\ \E text \in {Strip(text0)} :
          IF text = <<>>
          THEN /\ Returned("nllb", text0, env, <<>>, NoRun, FALSE)
               /\ UNCHANGED errorVars
          ELSE IF mt_backend # "nllb"
          THEN /\ SetErrorEn2Zh("NLLB backend not enabled")
               /\ Returned("nllb", text0, env, <<>>, NoRun, FALSE)
          ELSE IF ~en2zh_ready \/ translator_en2zh = "None"
          THEN /\ SetErrorEn2Zh(NotReadyMsg(en2zh_error, "NLLB translator not ready"))
               /\ Returned("nllb", text0, env, <<>>, NoRun, FALSE)
          ELSE /\ UNCHANGED errorVars
               /\ \E run \in {TranslateNllbInner(text, src_lang, tgt_lang, env,
                                                   sp_en2zh_tgt # "None")} :
                     IF run.raised
                     THEN Raised("nllb", text0, env, run, TRUE, RunExc(src_lang, tgt_lang))
                     ELSE Returned("nllb", text0, env, run.result, run, TRUE)
    /\ UNCHANGED <<configVars, fnVars, appVars>>

TranslateNllb(text0, src_lang, tgt_lang, env) ==
    /\ call.op = "none"
    /\ \E text \in {Strip(text0)} :
          IF text = <<>>
          THEN Returned("nllb", text0, env, <<>>, NoRun, FALSE)
          ELSE IF mt_backend # "nllb"
          THEN Raised("nllb", text0, env, NoRun, FALSE, RuntimeError("NLLB backend not enabled"))
          ELSE IF ~en2zh_ready \/ translator_en2zh = "None"
          THEN Raised("nllb", text0, env, NoRun, FALSE,
                      RuntimeError(NotReadyMsg(en2zh_error, "NLLB translator not ready")))
          ELSE \E run \in {TranslateNllbInner(text, src_lang, tgt_lang, env,
                                                sp_en2zh_tgt # "None")} :
               IF run.raised
               THEN Raised("nllb", text0, env, run, TRUE, RunExc(src_lang, tgt_lang))
               ELSE Returned("nllb", text0, env, run.result, run, TRUE)
    /\ UNCHANGED <<configVars, errorVars, fnVars, appVars>>

\* The caller takes the result; everything of the call is discarded (the
\* per-call lifecycle: only the engine's fields outlive a call).
Discard ==
    /\ call.op # "none"
    /\ call' = NoCall
    /\ UNCHANGED <<configVars, errorVars, fnVars, appVars>>

Next ==
    \/ \E text \in EngineTexts, env \in Envs : TranslateEn2Zh(text, env)
    \/ \E text \in EngineTexts, env \in Envs : TranslateZh2En(text, env)
    \/ \E text \in EngineTexts, env \in Envs, langs \in NllbLangPairs :
          TranslateNllb(text, langs[1], langs[2], env)
    \/ Discard

Spec == Init /\ [][Next]_vars

-----------------------------------------------------------------------------
(***************************************************************************)
(* Properties of the public translate calls, stated on the call just made. *)
(***************************************************************************)

Directional == {"en2zh", "zh2en"}

\* The direction's error string as status() reports it.
DirError(op) == IF op = "en2zh" THEN Status.en2zh_error ELSE Status.zh2en_error

\* The direction is ready: its flag is set and its translator is loaded.
DirReady(op) ==
    IF op = "en2zh" THEN en2zh_ready /\ translator_en2zh # "None"
    ELSE zh2en_ready /\ translator_zh2en # "None"

FailedMsg(op) ==
    IF op = "en2zh" THEN "EN->ZH translation failed" ELSE "ZH->EN translation failed"

\* The encode loop of the run went through (no exception before the batch).
Encoded(run) == ~run.raised \/ run.batches # <<>>

\* C1: when translate_en2zh or translate_zh2en meets an exception while
\* encoding, calling translate_batch or decoding, the call does not raise,
\* returns the empty string and stores the failure message of its direction
\* (which is also the last error).
C1_ExceptionBecomesError ==
    (call.op \in Directional /\ call.ran /\ call.run.raised) =>
        /\ ~call.raised
        /\ call.ret = <<>>
        /\ DirError(call.op) = FailedMsg(call.op)
        /\ Status.last_error = FailedMsg(call.op)

\* A decode failure after the batch came back: hypotheses existed, and the
\* call returned nothing of them.
C1_Witness ==
    /\ call.op = "zh2en" /\ call.ran /\ call.run.raised
    /\ call.env.dec = "raise" /\ call.run.results # <<>>
    /\ call.ret = <<>> /\ ~call.raised

\* C2: translate_en2zh or translate_zh2en on non-blank text while the
\* direction is not ready returns the empty string, does not raise, never
\* reaches translate_batch, and leaves a non-empty error for the direction
\* in status().
C2_NotReadyReturnsEmpty ==
    (call.op \in Directional /\ NonBlank(call.text) /\ ~DirReady(call.op)) =>
        /\ ~call.raised
        /\ call.ret = <<>>
        /\ ~call.ran /\ call.run.batches = <<>>
        /\ DirError(call.op) # ""

\* The NLLB load failed, which stored no ZH->EN error: the call itself
\* stores the fallback message.
C2_Witness ==
    /\ call.op = "zh2en" /\ NonBlank(call.text)
    /\ mt_backend = "nllb" /\ ~zh2en_ready
    /\ Status.zh2en_error = "ZH->EN translator not ready"
    /\ call.ret = <<>> /\ ~call.raised

\* C3: every translate_en2zh / translate_zh2en call on non-blank text
\* returns without raising, and when it returns the empty string the
\* direction's error in status() is non-empty.
C3_EmptyMeansError ==
    (call.op \in Directional /\ NonBlank(call.text)) =>
        /\ ~call.raised
        /\ call.ret = <<>> => DirError(call.op) # ""

\* C4: an empty or whitespace-only text makes translate_en2zh,
\* translate_zh2en and translate_nllb return the empty string without a
\* translate_batch call, whatever the backend and the readiness.
C4_BlankReturnsEmpty ==
    (call.op # "none" /\ ~NonBlank(call.text)) =>
        /\ ~call.raised
        /\ call.ret = <<>>
        /\ ~call.ran /\ call.run.batches = <<>>

\* translate_nllb with a whitespace-only text on an engine whose backend
\* is not NLLB.
C4_Witness ==
    /\ call.op = "nllb" /\ call.text # <<>> /\ ~NonBlank(call.text)
    /\ mt_backend # "nllb"
    /\ call.ret = <<>> /\ ~call.raised

\* The characters of s that are not whitespace, in order.
Ink(s) == SelectSeq(s, LAMBDA c : c \notin WsChars)

\* The batch positions whose hypothesis reached the slot of chunk i.
Writers(run, i) ==
    {j \in DOMAIN run.token_to_chunk :
        /\ run.token_to_chunk[j] = i
        /\ StripHyp(BestHyp(run.results, j), run.target_prefix_token,
                    run.source_prefix_tokens) # <<>>}

\* C7: the hypothesis at batch position j is written only to the slot of
\* the chunk sequence j was built from, every other slot keeps its initial
\* value, and the result holds the slots' texts in chunk order.
C7_SlotsInChunkOrder ==
    (call.op # "none" /\ call.ran /\ ~call.run.raised) =>
        LET run == call.run
            init == InitialSlots(run.chunks)
        IN  /\ DOMAIN run.out_by_chunk = DOMAIN run.chunks
            /\ \A j \in DOMAIN run.token_to_chunk :
                  /\ run.token_to_chunk[j] \in DOMAIN run.chunks
                  /\ run.token_lists[j] =
                        BuildSeq(call.env.enc, Strip(run.chunks[run.token_to_chunk[j]]),
                                 run.source_prefix_tokens)
            /\ \A i \in DOMAIN run.chunks :
                  /\ Cardinality(Writers(run, i)) <= 1
                  /\ Writers(run, i) = {} => run.out_by_chunk[i] = init[i]
                  /\ \A j \in Writers(run, i) :
                        run.out_by_chunk[i] =
                            PostprocessTranslation(
                                DecodeHyp(StripHyp(BestHyp(run.results, j),
                                                   run.target_prefix_token,
                                                   run.source_prefix_tokens),
                                          run.has_sp_tgt))
                  /\ (call.env.enc = "pieces" /\ call.env.tr \in {"echo", "noisy"}
                      /\ init[i] = <<>>)
                     => run.out_by_chunk[i] = PostprocessTranslation(Strip(run.chunks[i]))
            /\ Ink(run.result) = Ink(Join(run.out_by_chunk))

\* Two text chunks around a break, each translated into its own slot.
C7_Witness ==
    /\ call.op = "zh2en" /\ call.ran /\ ~call.run.raised
    /\ Len(call.run.chunks) = 3
    /\ call.run.token_to_chunk = <<1, 3>>
    /\ call.run.out_by_chunk = <<<<".">>, <<"LF">>, <<"ta">>>>
    /\ call.run.result = <<".", "LF", "ta">>

\* C8: a call whose encode loop went through issues one translate_batch
\* call when a token sequence was built and none otherwise; the batch is
\* the list of all sequences, one per encodable chunk, in chunk order.
C8_OneBatch ==
    (call.op # "none" /\ call.ran /\ Encoded(call.run)) =>
        LET run == call.run
            seq(i) == BuildSeq(call.env.enc, Strip(run.chunks[i]),
                               run.source_prefix_tokens)
            built == {i \in DOMAIN run.chunks : IsEncoded(run.chunks, i) /\ seq(i) # <<>>}
        IN  /\ Len(run.batches) = IF run.token_lists # <<>> THEN 1 ELSE 0
            /\ run.batches # <<>> => run.batches[1] = run.token_lists
            /\ Len(run.token_to_chunk) = Len(run.token_lists)
            /\ \A j, k \in DOMAIN run.token_to_chunk :
                  j < k => run.token_to_chunk[j] < run.token_to_chunk[k]
            /\ {run.token_to_chunk[j] : j \in DOMAIN run.token_to_chunk} = built
            /\ \A j \in DOMAIN run.token_lists :
                  run.token_lists[j] = seq(run.token_to_chunk[j])

\* One batch that carries the sequences of two chunks.
C8_Witness ==
    /\ call.op = "en2zh" /\ call.ran /\ ~call.run.raised
    /\ Len(call.run.batches) = 1
    /\ Len(call.run.batches[1]) = 2
    /\ Len(call.run.chunks) = 3

-----------------------------------------------------------------------------
(***************************************************************************)
(* The segmenter, the reassembler and the postprocessor on their own: the  *)
(* input is drawn in the initial state, and each step applies the function *)
(* as the pipeline does.  The engine's fields stay as in an engine built   *)
(* with the backend "none".                                                *)
(***************************************************************************)

EngineOff ==
    /\ mt_backend = "none" /\ ocr_ready = FALSE
    /\ en2zh_ready = FALSE /\ zh2en_ready = FALSE
    /\ translator_en2zh = "None" /\ translator_zh2en = "None"
    /\ sp_en2zh_tgt = "None" /\ sp_zh2en_tgt = "None"
    /\ last_error = "RapidOCR init failed" /\ ocr_error = "RapidOCR init failed"
    /\ en2zh_error = "" /\ zh2en_error = ""
    /\ call = NoCall

MaxSegLen == 4

SegChars == {"SP", "LF", "CR", "a", "ta", "."}

InitSeg ==
    /\ EngineOff
    /\ AppOff
    /\ fn_pc = "input"
    /\ fn_in \in StringsUpTo(SegChars, MaxSegLen)
    /\ fn_out = <<>>

\* _chunk_text(fn_in), on any string.
SegChunk ==
    /\ fn_pc = "input"
    /\ fn_pc' = "chunked"
    /\ fn_out' = [chunks |-> ChunkText(fn_in)]
    /\ UNCHANGED <<engineVars, fn_in, appVars>>

\* Lines 346-351 with a translation that returns each chunk as it is.
IdentitySlots(chunks) ==
    [i \in DOMAIN chunks |->
        IF chunks[i] = <<"LF">> THEN <<"LF">> ELSE Strip(chunks[i])]

\* _translate_with_chunking(fn_in) with every text chunk's output equal to
\* the chunk: the trim of lines 336-338, the segmenter, the merge loop.
SegTranslateIdentity ==
    /\ fn_pc = "input"
    /\ fn_pc' = "merged"
    /\ \E text \in {Strip(fn_in)} :
          IF text = <<>>
          THEN fn_out' = [chunks |-> <<>>, result |-> <<>>]
          ELSE \E chunks \in {ChunkText(text)} :
                  fn_out' = [chunks |-> chunks,
                             result |-> Reassemble(IdentitySlots(chunks))]
    /\ UNCHANGED <<engineVars, fn_in, appVars>>

NextSeg == SegChunk \/ SegTranslateIdentity

SpecSeg == InitSeg /\ [][NextSeg]_vars

\* C5: _chunk_text returns at least one chunk for every input; every chunk
\* is a line break or has a character that is not whitespace, unless no
\* chunk survived and the list is the line-ending-normalized text alone,
\* which is what a text without ink and without line break gives.
C5_NonEmptyChunkList ==
    fn_pc = "chunked" =>
        LET chunks == fn_out.chunks
            whole == <<ReplaceAll(ReplaceAll(fn_in, <<"CR", "LF">>, <<"LF">>),
                                  <<"CR">>, <<"LF">>)>>
        IN  /\ Len(chunks) >= 1
            /\ \/ \A i \in DOMAIN chunks :
                     chunks[i] = <<"LF">> \/ (NonBlank(chunks[i]) /\ "LF" \notin Range(chunks[i]))
               \/ chunks = whole
            /\ (\A i \in DOMAIN fn_in : fn_in[i] \in {"SP", "TAB", "NBSP"})
                  => chunks = whole

\* Spaces only: no piece survives and the text itself is the one chunk.
C5_Witness ==
    /\ fn_pc = "chunked"
    /\ fn_in = <<"SP", "SP">>
    /\ fn_out.chunks = <<<<"SP", "SP">>>>

\* A line break of the input: "\n", "\r\n" (at its "\r") or a lone "\r".
IsBreakAt(s, i) ==
    \/ s[i] = "LF" /\ (i = 1 \/ s[i - 1] # "CR")
    \/ s[i] = "CR"

\* The line structure of a string: "B" for each line break and "T" for
\* each stretch of text between line breaks that has ink.
RECURSIVE SigFrom(_, _, _)
SigFrom(s, i, prev) ==
    IF i > Len(s) THEN <<>>
    ELSE IF IsBreakAt(s, i) THEN <<"B">> \o SigFrom(s, i + 1, "B")
    ELSE IF s[i] \in WsChars \/ prev = "T" THEN SigFrom(s, i + 1, prev)
    ELSE <<"T">> \o SigFrom(s, i + 1, "T")

BreakSig(s) == SigFrom(s, 1, "B")

\* The same of a chunk list: "B" for each Break chunk, "T" for each
\* stretch of Text chunks.
RECURSIVE ChunkSigFrom(_, _, _)
ChunkSigFrom(chunks, i, prev) ==
    IF i > Len(chunks) THEN <<>>
    ELSE IF chunks[i] = <<"LF">> THEN <<"B">> \o ChunkSigFrom(chunks, i + 1, "B")
    ELSE IF ~NonBlank(chunks[i]) \/ prev = "T" THEN ChunkSigFrom(chunks, i + 1, prev)
    ELSE <<"T">> \o ChunkSigFrom(chunks, i + 1, "T")

ChunkSig(chunks) == ChunkSigFrom(chunks, 1, "B")

\* C6 as stated: every run of k line breaks of the input gives k Break
\* chunks, and k line breaks at the same place of the reassembled output.
C6_BreaksOfInputKept ==
    /\ fn_pc = "chunked" => ChunkSig(fn_out.chunks) = BreakSig(fn_in)
    /\ fn_pc = "merged" => BreakSig(fn_out.result) = BreakSig(fn_in)

\* C6, amended: _chunk_text gives k Break chunks for every run of k line
\* breaks of its input; the pipeline trims the text before segmenting it,
\* so the chunks and the reassembled output have exactly k line breaks for
\* every run of the trimmed input, and none for a run that leads or trails.
C6_BreaksOfTrimmedInputKept ==
    /\ fn_pc = "chunked" => ChunkSig(fn_out.chunks) = BreakSig(fn_in)
    /\ fn_pc = "merged" =>
          /\ ChunkSig(fn_out.chunks) = BreakSig(Strip(fn_in))
          /\ BreakSig(fn_out.result) = BreakSig(Strip(fn_in))

\* A blank line between two texts survives as two line breaks.
C6_Witness ==
    /\ fn_pc = "merged"
    /\ fn_in = <<"a", "LF", "LF", "ta">>
    /\ fn_out.chunks = <<<<"a">>, <<"LF">>, <<"LF">>, <<"ta">>>>
    /\ fn_out.result = <<"a", "LF", "LF", "ta">>


-----------------------------------------------------------------------------
(***************************************************************************)
(* The merge loop and cleanup on slot lists: a slot is empty, a line       *)
(* break, or a postprocessed translation.                                  *)
(***************************************************************************)

MaxSlots == 3

\* Decoded hypotheses, before postprocessing.
MergeSources ==
    {<<"ta">>, <<"hen", "hao">>, <<"a">>, <<"a", "SP", "ta">>, <<"ta", "SP", "a">>,
     <<"ta", ".">>, <<"ta", ",", "hao">>, <<"a", ".">>,
     <<"a", "SP", "LF", "SP", "a">>, <<"a", "TAB", "a">>}

\* The slots of the scenario: two ideographs, a Break, an ideograph.
MergeExamples == {<<<<"ta">>, <<"hen">>, <<"LF">>, <<"hao">>>>}

SlotValues ==
    {<<>>, <<"LF">>} \cup {PostprocessTranslation(y) : y \in MergeSources}

InitMerge ==
    /\ EngineOff
    /\ AppOff
    /\ fn_pc = "slots"
    /\ fn_in \in UNION {[1..n -> SlotValues] : n \in 0..MaxSlots} \cup MergeExamples
    /\ fn_out = <<>>

\* Lines 397-419 on out_by_chunk = fn_in.
MergeRun ==
    /\ fn_pc = "slots"
    /\ fn_pc' = "merged"
    /\ fn_out' = [merged_parts |-> MergeParts(<<>>, fn_in),
                  result |-> Reassemble(fn_in)]
    /\ UNCHANGED <<engineVars, fn_in, appVars>>

NextMerge == MergeRun

SpecMerge == InitMerge /\ [][NextMerge]_vars

IsTextSlot(p) == p # <<>> /\ p # <<"LF">>

\* Slots i < j are consecutive non-empty Text slots: nothing but empty
\* slots lies between them.
ConsecutiveTexts(slots, i, j) ==
    /\ i < j
    /\ IsTextSlot(slots[i]) /\ IsTextSlot(slots[j])
    /\ \A k \in (i + 1)..(j - 1) : slots[k] = <<>>

Contains(s, sub) ==
    \E i \in 1..(Len(s) - Len(sub) + 1) : SubSeq(s, i, i + Len(sub) - 1) = sub

\* How many times a space stands between two CJK ideographs in s.
SpacedCjk(s) ==
    Cardinality({i \in 2..(Len(s) - 1) :
                    s[i] = "SP" /\ IsZh(s[i - 1]) /\ IsZh(s[i + 1])})

RECURSIVE SumSpacedCjk(_)
SumSpacedCjk(slots) ==
    IF slots = <<>> THEN 0 ELSE SpacedCjk(Head(slots)) + SumSpacedCjk(Tail(slots))

\* C9: for consecutive non-empty Text slots of which the earlier ends and
\* the later begins with a CJK ideograph, the result holds the two
\* ideographs next to each other, the loop put no " " between the two
\* parts, and the result has no space between two ideographs that a slot
\* did not have.
C9_NoSpaceBetweenCjk ==
    fn_pc = "merged" =>
        /\ \A i, j \in DOMAIN fn_in :
              (/\ ConsecutiveTexts(fn_in, i, j)
               /\ IsZh(Last(fn_in[i])) /\ IsZh(Head(fn_in[j])))
              => Contains(fn_out.result, <<Last(fn_in[i]), Head(fn_in[j])>>)
        /\ \A k \in 2..(Len(fn_out.merged_parts) - 1) :
              fn_out.merged_parts[k] = <<"SP">>
              => ~(/\ IsZh(Last(fn_out.merged_parts[k - 1]))
                   /\ IsZh(Head(fn_out.merged_parts[k + 1])))
        /\ SpacedCjk(fn_out.result) <= SumSpacedCjk(fn_in)

\* Two CJK translations around a slot left empty, joined directly.
C9_Witness ==
    /\ fn_pc = "merged"
    /\ fn_in = <<<<"ta">>, <<>>, <<"hen", "hao">>>>
    /\ fn_out.result = <<"ta", "hen", "hao">>

-----------------------------------------------------------------------------
(***************************************************************************)
(* The postprocessor applied to a decoded text, and to its own output.     *)
(***************************************************************************)

MaxPostLen == 3

PostChars == {"SP", "a", "ta", "huo", "sai", ".", "?", ",", "!", ";", ":"}

\* Longer decoded texts, beside every text over PostChars.
PostExamples ==
    {<<"ni", "hao", ",", "shi4", "jie4", ".">>,
     <<"?", "SP", ".", "a">>,
     <<"ta", ".", ".", ".", "hao", ".">>,
     <<"ta", "?", "SP", "?", "hao", "?">>}

InitPost ==
    /\ EngineOff
    /\ AppOff
    /\ fn_pc = "input"
    /\ fn_in \in StringsUpTo(PostChars, MaxPostLen) \cup PostExamples
    /\ fn_out = <<>>

PostOnce ==
    /\ fn_pc = "input"
    /\ fn_pc' = "once"
    /\ fn_out' = <<PostprocessTranslation(fn_in)>>
    /\ UNCHANGED <<engineVars, fn_in, appVars>>

PostTwice ==
    /\ fn_pc = "once"
    /\ fn_pc' = "twice"
    /\ fn_out' = Append(fn_out, PostprocessTranslation(fn_out[1]))
    /\ UNCHANGED <<engineVars, fn_in, appVars>>

NextPost == PostOnce \/ PostTwice

SpecPost == InitPost /\ [][NextPost]_vars

\* C10: postprocessing a postprocessed text changes nothing.
C10_Idempotent ==
    fn_pc = "twice" => fn_out[2] = fn_out[1]


\* The full stops of s that have no full stop next to them.
LoneDotCount(s) ==
    Cardinality({i \in DOMAIN s :
                    s[i] = "." /\ CharAt(s, i - 1) # "." /\ CharAt(s, i + 1) # "."})

AsciiMarks == {",", "?", "!", ";", ":"}

\* C11: for a text with a CJK ideograph the output has none of , ? ! ; :
\* and no full stop without a full stop next to it; each mark left by the
\* artifact removal (rule 1, which deletes "??") has become its full-width
\* counterpart, each lone full stop the CJK full stop, and the full stops of
\* a run of two or more are all still there.
C11_FullWidthPunctuation ==
    (fn_pc \in {"once", "twice"} /\ HasZh(fn_in)) =>
        LET out == fn_out[1]
            clean == PostClean(fn_in)
        IN  /\ \A i \in DOMAIN out : out[i] \notin AsciiMarks
            /\ LoneDotCount(out) = 0
            /\ \A c \in AsciiMarks :
                  Count(out, FullWidthOf(c)) = Count(clean, c) + Count(clean, FullWidthOf(c))
            /\ Count(out, "FWSTOP") = Count(clean, "FWSTOP") + LoneDotCount(clean)
            /\ Count(out, ".") = Count(clean, ".") - LoneDotCount(clean)

\* The scenario: U+4F60 U+597D , U+4E16 U+754C . with both marks converted.
C11_Witness ==
    /\ fn_pc = "once"
    /\ fn_in = <<"ni", "hao", ",", "shi4", "jie4", ".">>
    /\ fn_out = <<<<"ni", "hao", "FWCOMMA", "shi4", "jie4", "FWSTOP">>>>


-----------------------------------------------------------------------------
(***************************************************************************)
(* The segmenter on one long CJK sentence with three commas.               *)
(***************************************************************************)

\* The length of the sentence: ten over the threshold of line 451.
CjkSentenceLen == ZhMaxLen + 10

\* Where the commas may stand: at the head, in the middle, at the tail.
CommaSlots == {1, 2, 3, 30, 45, 60, CjkSentenceLen - 2, CjkSentenceLen - 1, CjkSentenceLen}

\* Ideographs, with the comma at the positions of where.
CjkSentence(where, comma) ==
    [i \in 1..CjkSentenceLen |-> IF i \in where THEN comma ELSE "ta"]

InitLong ==
    /\ EngineOff
    /\ AppOff
    /\ fn_pc = "input"
    /\ fn_in \in {CjkSentence(where, comma) :
                    where \in {w \in SUBSET CommaSlots : Cardinality(w) = 3},
                    comma \in {"FWCOMMA", ","}}
    /\ fn_out = <<>>

SpecLong == InitLong /\ [][NextSeg]_vars

\* C12: a CJK sentence of length 90 with 3 commas gives at least 3 pieces,
\* none longer than the threshold of 80, wherever the commas stand.
C12_PiecesWithinThreshold ==
    fn_pc = "chunked" =>
        /\ Len(fn_out.chunks) >= 3
        /\ \A i \in DOMAIN fn_out.chunks : Len(fn_out.chunks[i]) <= ZhMaxLen


-----------------------------------------------------------------------------
(***************************************************************************)
(* The segmenter on texts with sentence terminators.                       *)
(***************************************************************************)

MaxSentLen == 3

SentChars == {"SP", "a", "ta", ".", "?", ";", "FWCOLON", "FWSTOP", "FWQ", "ELL"}

\* "Hello world. How are you?", and one sentence of every terminator.
SentExamples ==
    {<<"H", "e", "l", "l", "o", "SP", "w", "o", "r", "l", "d", ".", "SP",
       "H", "o", "w", "SP", "a", "r", "e", "SP", "y", "o", "u", "?">>,
     <<"a", "!", "a", ";", "a", ".", "a", "?", "a", "ELL", "a">>,
     <<"ta", "FWEX", "ta", "FWSEMI", "ta", "FWSTOP", "ta", "FWQ", "ta", "FWCOLON", "ta">>}

InitSent ==
    /\ EngineOff
    /\ AppOff
    /\ fn_pc = "input"
    /\ fn_in \in StringsUpTo(SentChars, MaxSentLen) \cup SentExamples
    /\ fn_out = <<>>

SpecSent == InitSent /\ [][NextSeg]_vars

\* The terminators as the specification lists them, and as line 444 has them.
ListedTerminators == {".", "!", "?", ";", "FWCOLON", "FWEX", "FWQ", "FWSEMI", "ELL"}

SplitTerminators == {".", "!", "?", ";", "FWSTOP", "FWEX", "FWQ", "FWSEMI", "ELL"}

\* No chunk has a character of T anywhere but at its end.
OnlyAtEnd(chunks, T) ==
    \A i \in DOMAIN chunks :
        \A k \in 1..(Len(chunks[i]) - 1) : chunks[i][k] \notin T

\* C13 as stated: no chunk holds one of the listed terminators ('.', '!',
\* '?', ';', U+FF1A, U+FF01, U+FF1F, U+FF1B, U+2026) except as its last
\* character.
C13_ListedTerminatorsEndChunks ==
    fn_pc = "chunked" => OnlyAtEnd(fn_out.chunks, ListedTerminators)

\* C13 amended: the chunks keep every non-blank character of the text in
\* order, and no chunk holds one of '.', '!', '?', ';', U+3002, U+FF01,
\* U+FF1F, U+FF1B, U+2026 except as its last character.
C13_SplitTerminatorsEndChunks ==
    fn_pc = "chunked" =>
        /\ OnlyAtEnd(fn_out.chunks, SplitTerminators)
        /\ Ink(Join(fn_out.chunks)) = Ink(fn_in)

C13_Witness ==
    /\ fn_pc = "chunked"
    /\ fn_in = <<"H", "e", "l", "l", "o", "SP", "w", "o", "r", "l", "d", ".", "SP",
                 "H", "o", "w", "SP", "a", "r", "e", "SP", "y", "o", "u", "?">>
    /\ fn_out.chunks = <<<<"H", "e", "l", "l", "o", "SP", "w", "o", "r", "l", "d", ".">>,
                         <<"H", "o", "w", "SP", "a", "r", "e", "SP", "y", "o", "u", "?">>>>


-----------------------------------------------------------------------------
(***************************************************************************)
(* The OCR normalizer on two lines with a run of line breaks between.      *)
(***************************************************************************)

MaxLineLen == 2

MaxBreaks == 4

\* Every non-empty line over a space, a letter, an ideograph and the
\* backslash, and the lines "line one" and "line two".
OcrLines ==
    (StringsUpTo({"SP", "n", "ta", "BSL"}, MaxLineLen) \ {<<>>})
    \cup {<<"l", "i", "n", "e", "SP", "o", "n", "e">>, <<"l", "i", "n", "e", "SP", "t", "w", "o">>}

\* k line breaks, each written as nl.
BreakRun(nl, k) == Join([i \in 1..k |-> nl])

InitOcr ==
    /\ EngineOff
    /\ AppOff
    /\ fn_pc = "input"
    /\ fn_in \in {x \o BreakRun(nl, k) \o y :
                    x \in OcrLines, y \in OcrLines,
                    nl \in {<<"LF">>, <<"CR", "LF">>}, k \in 1..MaxBreaks}
    /\ fn_out = <<>>

\* _normalize_ocr_text(fn_in)
OcrNormalize ==
    /\ fn_pc = "input"
    /\ fn_pc' = "normalized"
    /\ fn_out' = NormalizeOcrText(fn_in)
    /\ UNCHANGED <<engineVars, fn_in, appVars>>

NextOcr == OcrNormalize

SpecOcr == InitOcr /\ [][NextOcr]_vars

\* The two lines of a text and the number of line breaks between them.
BreakAt(s) == {i \in DOMAIN s : s[i] \in {"LF", "CR"}}

LineBefore(s) == SubSeq(s, 1, (CHOOSE i \in BreakAt(s) : \A j \in BreakAt(s) : i <= j) - 1)

LineAfter(s) == SubSeq(s, (CHOOSE i \in BreakAt(s) : \A j \in BreakAt(s) : j <= i) + 1, Len(s))

BreaksBetween(s) == Count(NormalizeNewlines(s), "LF")

\* C14 as stated: a run of three or more line breaks between two non-empty
\* lines leaves exactly two line breaks in the normalizer's output.
C14_BlankLineRetained ==
    (fn_pc = "normalized" /\ BreaksBetween(fn_in) >= 3) =>
        Count(fn_out, "LF") = 2

\* C14 amended: a run of two or more line breaks between two lines that
\* hold no backslash, the first not ending and the second not starting
\* with whitespace, leaves exactly one line break in the output, with the
\* characters of the first line before it and those of the second after.
C14_OneBreakRetained ==
    (/\ fn_pc = "normalized"
     /\ BreaksBetween(fn_in) >= 2
     /\ Last(LineBefore(fn_in)) \notin WsChars
     /\ LineAfter(fn_in)[1] \notin WsChars
     /\ \A i \in DOMAIN fn_in : fn_in[i] # "BSL") =>
        /\ Count(fn_out, "LF") = 1
        /\ \E p \in DOMAIN fn_out :
              /\ fn_out[p] = "LF"
              /\ Ink(SubSeq(fn_out, 1, p - 1)) = Ink(LineBefore(fn_in))
              /\ Ink(SubSeq(fn_out, p + 1, Len(fn_out))) = Ink(LineAfter(fn_in))

C14_Witness ==
    /\ fn_pc = "normalized"
    /\ fn_in = <<"l", "i", "n", "e", "SP", "o", "n", "e", "LF", "LF", "LF", "LF",
                 "l", "i", "n", "e", "SP", "t", "w", "o">>
    /\ fn_out = <<"l", "i", "n", "e", "SP", "o", "n", "e", "LF",
                  "l", "i", "n", "e", "SP", "t", "w", "o">>


\* The line breaks inside the Text slots.
RECURSIVE BreaksInTexts(_)
BreaksInTexts(slots) ==
    IF slots = <<>> THEN 0
    ELSE (IF IsTextSlot(Head(slots)) THEN Count(Head(slots), "LF") ELSE 0)
         + BreaksInTexts(Tail(slots))

BreakSlots(slots) == {i \in DOMAIN slots : slots[i] = <<"LF">>}

\* The Break slots with a non-empty Text slot before and after them.
InnerBreakSlots(slots) ==
    {i \in BreakSlots(slots) :
        /\ \E j \in 1..(i - 1) : IsTextSlot(slots[j])
        /\ \E j \in (i + 1)..Len(slots) : IsTextSlot(slots[j])}

\* No space beside a line break, no two spaces or tabs in a row, no
\* whitespace at either end.
CleanedUp(s) ==
    /\ \A i \in DOMAIN s :
          s[i] = "LF" => CharAt(s, i - 1) # "SP" /\ CharAt(s, i + 1) # "SP"
    /\ \A i \in 1..(Len(s) - 1) : ~(s[i] \in {"SP", "TAB"} /\ s[i + 1] \in {"SP", "TAB"})
    /\ s # <<>> => s[1] \notin WsChars /\ Last(s) \notin WsChars

\* C15 as stated: every Break slot is one line break of the result, which
\* has no space beside a line break, no run of two or more spaces or tabs
\* and no whitespace at its ends.
C15_EveryBreakEmitted ==
    fn_pc = "merged" =>
        /\ Count(fn_out.result, "LF") = Cardinality(BreakSlots(fn_in)) + BreaksInTexts(fn_in)
        /\ CleanedUp(fn_out.result)

\* C15 amended: every Break slot that has a non-empty Text slot before it
\* and one after it is one line break of the result, the Break slots
\* that lead or trail the texts are trimmed away, and the result has no
\* space beside a line break, no run of two or more spaces or tabs and no
\* whitespace at its ends.
C15_InnerBreaksEmitted ==
    fn_pc = "merged" =>
        /\ Count(fn_out.result, "LF") = Cardinality(InnerBreakSlots(fn_in)) + BreaksInTexts(fn_in)
        /\ CleanedUp(fn_out.result)

C15_Witness ==
    /\ fn_pc = "merged"
    /\ fn_in = <<<<"ta">>, <<"hen">>, <<"LF">>, <<"hao">>>>
    /\ fn_out.result = <<"ta", "hen", "LF", "hao">>


-----------------------------------------------------------------------------
(***************************************************************************)
(* The query normalizer on short texts.                                    *)
(***************************************************************************)

MaxQueryLen == 4

\* Every text over a space, a letter in both cases and the full stop, and
\* "You can roll it. You can roll it."
QueryTexts ==
    StringsUpTo({"SP", "a", "A", "."}, MaxQueryLen)
    \cup {<<"Y", "o", "u", "SP", "c", "a", "n", "SP", "r", "o", "l", "l", "SP", "i", "t", ".", "SP",
            "Y", "o", "u", "SP", "c", "a", "n", "SP", "r", "o", "l", "l", "SP", "i", "t", ".">>}

InitQuery ==
    /\ EngineOff
    /\ AppOff
    /\ fn_pc = "input"
    /\ fn_in \in QueryTexts
    /\ fn_out = <<>>

\* _normalize_english_input(fn_in)
QueryNormalize ==
    /\ fn_pc = "input"
    /\ fn_pc' = "query"
    /\ fn_out' = NormalizeEnglishInput(fn_in)
    /\ UNCHANGED <<engineVars, fn_in, appVars>>

NextQuery == QueryNormalize

SpecQuery == InitQuery /\ [][NextQuery]_vars

\* C16: the output of the query normalizer, split at the whitespace that
\* follows '.', '!' or '?', never has two adjacent sentences that are
\* equal ignoring case.
C16_NoAdjacentRepeats ==
    fn_pc = "query" =>
        LET sentences == SplitSentences(fn_out)
        IN  \A i \in 1..(Len(sentences) - 1) :
                LowerStr(sentences[i]) # LowerStr(sentences[i + 1])


-----------------------------------------------------------------------------
(***************************************************************************)
(* The exceptions of the public entry points.                              *)
(***************************************************************************)

\* translate_nllb would find the backend or the translator missing.
NllbUnavailable ==
    mt_backend # "nllb" \/ ~en2zh_ready \/ translator_en2zh = "None"

\* C17: translate_nllb with a non-blank text raises RuntimeError, before
\* any work of the pipeline and with no error recorded, when the backend
\* is not "nllb" or the NLLB translator is not ready; translate_en2zh and
\* translate_zh2en never let an exception escape.
C17_OnlyNllbRaises ==
    [][/\ (call'.op = "nllb" /\ NonBlank(call'.text) /\ NllbUnavailable) =>
              /\ call'.raised
              /\ call'.exc.kind = "RuntimeError"
              /\ ~call'.ran
              /\ UNCHANGED errorVars
       /\ call'.op \in Directional => (~call'.raised /\ call'.exc = NoExc)]_vars

\* translate_nllb raised on an NLLB engine whose translator failed to
\* load: the exception carries the load error.
C17_Witness ==
    /\ call.op = "nllb" /\ NonBlank(call.text)
    /\ mt_backend = "nllb" /\ ~en2zh_ready
    /\ call.raised /\ ~call.ran
    /\ call.exc = RuntimeError(en2zh_error) /\ en2zh_error # ""


\* C18: a translate call never changes a readiness flag or the OCR error;
\* it changes the status only by failing, and then only last_error and
\* the error string of its own direction, both set to the same message;
\* a call that returns text leaves every field of the status as it was,
\* errors of earlier calls included.
C18_StatusChangesOnlyOnFailure ==
    [][/\ UNCHANGED <<ocr_ready, en2zh_ready, zh2en_ready, ocr_error>>
       /\ call'.op = "en2zh" => UNCHANGED zh2en_error
       /\ call'.op = "zh2en" => UNCHANGED en2zh_error
       /\ call'.ret # <<>> => Status' = Status
       /\ Status' # Status =>
             /\ call'.op \in Directional
             /\ call'.ret = <<>> /\ ~call'.raised
             /\ last_error' # ""
             /\ last_error' = (IF call'.op = "en2zh" THEN en2zh_error' ELSE zh2en_error')]_vars

\* translate_en2zh returned text on an engine that still reports the
\* failure of an earlier translate_en2zh call.
C18_Witness ==
    /\ call.op = "en2zh" /\ call.ret # <<>>
    /\ en2zh_error = "EN->ZH translation failed"
    /\ last_error = "EN->ZH translation failed"


-----------------------------------------------------------------------------
(***************************************************************************)
(* The token sequences of a call.                                          *)
(***************************************************************************)

\* The chunks of a run that have a sequence in the batch.
BatchedChunks(run) == {run.token_to_chunk[j] : j \in DOMAIN run.token_to_chunk}

\* C19: a Text chunk that the tokenizer encodes to no piece has no
\* sequence in the batch and an empty output slot, with and without
\* language tags.
C19_ZeroPieceChunkSkipped ==
    (call.op # "none" /\ call.ran /\ ~call.run.raised) =>
        \A i \in DOMAIN call.run.chunks :
            (/\ IsEncoded(call.run.chunks, i)
             /\ EncodeAsPieces(call.env.enc, Strip(call.run.chunks[i])) = <<>>)
            => /\ i \notin BatchedChunks(call.run)
               /\ call.run.out_by_chunk[i] = <<>>


\* C20: every sequence of a batch is non-empty, holds "</s>" once, as
\* its last token, starts with the source language tag when the call has
\* one, and holds between them the pieces of one Text chunk that is
\* non-empty after stripping, a different chunk for each sequence; a Break
\* chunk has no sequence and its slot is the line break.
C20_SequencesWellFormed ==
    (call.op # "none" /\ call.ran /\ Encoded(call.run)) =>
        LET run == call.run
            tags == run.source_prefix_tokens
        IN  /\ \A b \in DOMAIN run.batches : run.batches[b] = run.token_lists
            /\ \A j \in DOMAIN run.token_lists :
                  LET seq == run.token_lists[j]
                      i == run.token_to_chunk[j]
                  IN  /\ seq # <<>>
                      /\ Last(seq) = EOS
                      /\ Count(seq, EOS) = 1
                      /\ SubSeq(seq, 1, Len(tags)) = tags
                      /\ IsEncoded(run.chunks, i)
                      /\ SubSeq(seq, Len(tags) + 1, Len(seq) - 1)
                            = SelectSeq(EncodeAsPieces(call.env.enc, Strip(run.chunks[i])),
                                        LAMBDA t : t # EOS)
            /\ \A j, k \in DOMAIN run.token_to_chunk :
                  j # k => run.token_to_chunk[j] # run.token_to_chunk[k]
            /\ \A i \in DOMAIN run.chunks :
                  run.chunks[i] = <<"LF">> =>
                      /\ i \notin BatchedChunks(run)
                      /\ ~run.raised => run.out_by_chunk[i] = <<"LF">>

\* An NLLB call on two lines whose tokenizer ends its pieces with "</s>":
\* two tagged sequences, none for the Break chunk between them.
C20_Witness ==
    /\ call.op = "en2zh" /\ call.ran /\ ~call.run.raised
    /\ mt_backend = "nllb" /\ call.env.enc = "eos"
    /\ call.run.chunks = <<<<"ta">>, <<"LF">>, <<"ta">>>>
    /\ call.run.token_to_chunk = <<1, 3>>
    /\ call.run.token_lists[1] = <<<<"eng_Latn">>, <<"WB", "ta">>, EOS>>
    /\ call.run.out_by_chunk[2] = <<"LF">>

-----------------------------------------------------------------------------
(***************************************************************************)
(* The separators of the reassembly.                                       *)
(***************************************************************************)

\* The marks after which no space is put (line 407).
NoSpaceAfter ==
    {"FWCOMMA", "FWSTOP", "FWEX", "FWQ", "FWSEMI", "FWCOLON", "DUN",
     ",", ".", "!", "?", ";", ":"}

\* A space belongs between the fragment prev and the text part.
SpaceDue(prev, part) ==
    /\ prev # <<"LF">>
    /\ Last(prev) \notin NoSpaceAfter
    /\ ~(IsZh(Last(prev)) /\ IsZh(part[1]))

\* C21: the fragments of the reassembly are the non-empty slots in order,
\* with one " " before a Text slot exactly when the fragment before it is
\* not a line break, does not end in one of the punctuation marks and the
\* two do not meet ideograph to ideograph; empty slots leave no trace.
C21_SeparatorRule ==
    fn_pc = "merged" =>
        LET parts == fn_out.merged_parts
            sep(p) == parts[p] = <<"SP">>
        IN  /\ SelectSeq(parts, LAMBDA f : f # <<"SP">>)
                  = SelectSeq(fn_in, LAMBDA f : f # <<>>)
            /\ \A p \in DOMAIN parts :
                  sep(p) => /\ 1 < p /\ p < Len(parts)
                            /\ ~sep(p - 1) /\ ~sep(p + 1)
                            /\ IsTextSlot(parts[p + 1])
                            /\ SpaceDue(parts[p - 1], parts[p + 1])
            /\ \A p \in 2..Len(parts) :
                  (IsTextSlot(parts[p]) /\ ~sep(p) /\ ~sep(p - 1))
                  => ~SpaceDue(parts[p - 1], parts[p])

\* A Latin text, an empty slot and a CJK text: one space, none for the
\* empty slot.
C21_Witness ==
    /\ fn_pc = "merged"
    /\ fn_in = <<<<"a">>, <<>>, <<"ta">>>>
    /\ fn_out.merged_parts = <<<<"a">>, <<"SP">>, <<"ta">>>>

\* ---------------------------------------------------------------------
\* The decode loop on one returned result (core_engine.py 376-395)
\* ---------------------------------------------------------------------

MaxHypLen == 3

\* Tokens a hypothesis is made of: the language tags translate_nllb
\* injects, a sentinel token, a piece, the end-of-sentence token.
HypTokens == {<<NllbTgtLangZh>>, <<NllbSrcLangEn>>, SentinelToken, <<"WB", "a">>, EOS}

\* One result of translate_batch: no hypothesis, or one hypothesis; the
\* call injects the tags (translate_nllb) or none (translate_en2zh).
InitDecode ==
    /\ EngineOff
    /\ AppOff
    /\ fn_pc = "input"
    /\ fn_in \in [hypotheses : {<<>>} \cup {<<h>> : h \in StringsUpTo(HypTokens, MaxHypLen)},
                  target_prefix_token : {"", NllbTgtLangZh},
                  has_sp_tgt : BOOLEAN]
    /\ fn_out = <<>>

\* source_prefix_tokens of the call.
SourcePrefixOf(target_prefix_token) ==
    IF target_prefix_token = "" THEN <<>> ELSE <<<<NllbSrcLangEn>>>>

\* One pass of the loop body for res_idx = 1, chunk_idx = 1: the tokens
\* handed to the detokenizer (none when the pass ends at line 389) and the
\* output slots afterwards.
DecodeOne ==
    /\ fn_pc = "input"
    /\ fn_pc' = "decoded"
    /\ \E hyp \in {StripHyp(BestHyp(<<fn_in.hypotheses>>, 1), fn_in.target_prefix_token, SourcePrefixOf(fn_in.target_prefix_token))} :
          fn_out' = [handed |-> IF hyp = <<>> THEN <<>> ELSE <<hyp>>,
                     slots |-> DecodeLoop(<<fn_in.hypotheses>>, <<1>>, <<<<>>>>, fn_in.has_sp_tgt, fn_in.target_prefix_token, SourcePrefixOf(fn_in.target_prefix_token))]
    /\ UNCHANGED <<engineVars, fn_in, appVars>>

NextDecode == DecodeOne

SpecDecode == InitDecode /\ [][NextDecode]_vars

\* C22: the tokens handed to the detokenizer never start with an injected
\* source or target tag and never include a sentinel token; when nothing
\* remains of the hypothesis, or there is no hypothesis, nothing is handed
\* over and the output slot stays empty.
C22_NoTagNoSentinelHanded ==
    fn_pc = "decoded" =>
        LET drop == DropLeadingSet(fn_in.target_prefix_token, SourcePrefixOf(fn_in.target_prefix_token))
        IN  /\ \A k \in DOMAIN fn_out.handed :
                   /\ fn_out.handed[k] # <<>>
                   /\ fn_out.handed[k][1] \notin drop
                   /\ \A p \in DOMAIN fn_out.handed[k] : ~IsSentinel(fn_out.handed[k][p])
            /\ fn_out.handed = <<>> => fn_out.slots = <<<<>>>>

\* The part of C22 the code keeps: no sentinel token is handed over, and
\* an empty remainder or a missing hypothesis leaves the slot empty.
C22_NoSentinelHanded ==
    fn_pc = "decoded" =>
        /\ \A k \in DOMAIN fn_out.handed : \A p \in DOMAIN fn_out.handed[k] : ~IsSentinel(fn_out.handed[k][p])
        /\ fn_out.handed = <<>> => fn_out.slots = <<<<>>>>

\* A tag behind a sentinel token reaches the detokenizer.
C22_TagHanded ==
    /\ fn_pc = "decoded"
    /\ fn_in.hypotheses = <<<<SentinelToken, <<NllbTgtLangZh>>, <<"WB", "a">>>>>>
    /\ fn_in.target_prefix_token = NllbTgtLangZh
    /\ fn_out.handed = <<<<<<NllbTgtLangZh>>, <<"WB", "a">>>>>>

\* C23 (as stated): in a postprocessor output no Latin punctuation mark (, . ; : ! ?)
\* is immediately followed by a letter, and none is preceded by whitespace.
C23_LatinPunctSpacing ==
    fn_pc \in {"once", "twice"} =>
        \A i \in DOMAIN fn_out[1] :
            fn_out[1][i] \in LatinPunct =>
                /\ CharAt(fn_out[1], i + 1) \notin Letters
                /\ CharAt(fn_out[1], i - 1) \notin WsChars

\* C23 (amended): in a postprocessor output no Latin punctuation mark is
\* preceded by whitespace (line 530).
C23_NoSpaceBeforeLatinPunct ==
    fn_pc \in {"once", "twice"} =>
        \A i \in DOMAIN fn_out[1] :
            fn_out[1][i] \in LatinPunct => CharAt(fn_out[1], i - 1) \notin WsChars

\* The space in front of the mark is removed, and the mark stays directly
\* in front of the letter.
C23_Witness ==
    /\ fn_pc = "once"
    /\ fn_in = <<"?", "SP", ".", "a">>
    /\ fn_out = <<<<"?", ".", "a">>>>

\* ---------------------------------------------------------------------
\* The terminology table of the postprocessor (core_engine.py 510-526)
\* ---------------------------------------------------------------------

\* The wrong terms of term_map, and each with one space between two of its
\* characters.
TermTexts ==
    {TermMap[k][1] : k \in DOMAIN TermMap}
    \cup UNION {{SubSeq(TermMap[k][1], 1, p) \o <<"SP">> \o SubSeq(TermMap[k][1], p + 1, Len(TermMap[k][1])) :
                    p \in 1..(Len(TermMap[k][1]) - 1)} : k \in DOMAIN TermMap}

InitTerm ==
    /\ EngineOff
    /\ AppOff
    /\ fn_pc = "input"
    /\ fn_in \in TermTexts
    /\ fn_out = <<>>

SpecTerm == InitTerm /\ [][NextPost]_vars

\* The entries of term_map whose correction differs from the wrong term.
Corrections == {k \in DOMAIN TermMap : TermMap[k][1] # TermMap[k][2]}

\* C24: postprocessing a CJK text that consists of a wrong term of the
\* terminology table gives exactly the correct term, and no postprocessor
\* output for a CJK text contains a wrong term whose correction differs
\* from it.
C24_TermsCorrected ==
    (fn_pc = "once" /\ HasZh(fn_in)) =>
        /\ \A k \in DOMAIN TermMap : fn_in = TermMap[k][1] => fn_out[1] = TermMap[k][2]
        /\ \A k \in Corrections : ~Contains(fn_out[1], TermMap[k][1])

\* A wrong term that holds an earlier, shorter wrong term: the shorter one
\* is replaced first and the rest of the longer one is left behind it.
C24_LongerKeyLeftover ==
    /\ fn_pc = "once"
    /\ fn_in = <<"ke", "bian", "wei", "yi", "huo", "sai", "beng">>
    /\ fn_out = <<<<"bian", "liang", "zhu", "sai", "beng", "beng">>>>

\* A wrong term that becomes contiguous only when line 527 removes the
\* space, after the table was applied.
C24_TermAfterSpaceRemoval ==
    /\ fn_pc = "once"
    /\ fn_in = <<"huo", "SP", "sai">>
    /\ fn_out = <<<<"huo", "sai">>>>

\* ---------------------------------------------------------------------
\* One sentence around the thresholds of line 451 and line 453
\* ---------------------------------------------------------------------

\* Lengths at and just over 40, 80 and 180.
SplitLens == {ZhCommaLen, ZhCommaLen + 1, ZhMaxLen, ZhMaxLen + 1, LatinMaxLen, LatinMaxLen + 1}

\* A sentence of n characters fill; where says what stands at the second
\* character, at the twentieth and at the last.
SplitSentence(fill, n, where) ==
    [i \in 1..n |-> IF i = 2 THEN where[1] ELSE IF i = 20 THEN where[2] ELSE IF i = n THEN where[3] ELSE fill]

InitSplit ==
    /\ EngineOff
    /\ AppOff
    /\ fn_pc = "input"
    /\ \E fill \in {"ta", "a"} :
          fn_in \in {SplitSentence(fill, n, where) :
                       n \in SplitLens, where \in [1..3 -> {fill, ",", "FWCOMMA"}]}
    /\ fn_out = <<>>

SpecSplit == InitSplit /\ [][NextSeg]_vars

\* The commas a sentence chunk is split after, as C25 states them.
CutMarks(seg) ==
    LET commas == Count(seg, "FWCOMMA") + Count(seg, ",")
    IN  IF HasZh(seg) /\ (Len(seg) > 80 \/ (commas >= 2 /\ Len(seg) > 40)) THEN {"FWCOMMA", ","}
        ELSE IF ~HasZh(seg) /\ Len(seg) > 180 THEN {","}
        ELSE {}

\* C25: a sentence chunk with CJK is split after every full-width and
\* every ASCII comma exactly when it is longer than 80 or has two commas
\* and is longer than 40; one without CJK after every ASCII comma exactly
\* when it is longer than 180; the comma stays on the preceding piece and
\* every other sentence chunk is emitted whole.
C25_SplitExactlyWhenOversized ==
    fn_pc = "chunked" =>
        LET chunks == fn_out.chunks
            cut == CutMarks(fn_in)
        IN  /\ Join(chunks) = fn_in
            /\ \A k \in DOMAIN chunks :
                   /\ chunks[k] # <<>>
                   /\ \A p \in 1..(Len(chunks[k]) - 1) : chunks[k][p] \notin cut
                   /\ k < Len(chunks) => Last(chunks[k]) \in cut

\* A CJK sentence of 41 characters with two commas is split after both,
\* and one of 40 characters is not.
C25_Witness ==
    /\ fn_pc = "chunked"
    /\ Len(fn_in) = 41
    /\ HasZh(fn_in)
    /\ fn_in[2] = "FWCOMMA" /\ fn_in[20] = "," /\ fn_in[41] = "ta"
    /\ Len(fn_out.chunks) = 3
    /\ fn_out.chunks[1] = <<"ta", "FWCOMMA">>

\* s without its whitespace other than line breaks.
Content(s) == SelectSeq(s, LAMBDA c : c \notin (WsChars \ {"LF"}))

\* C30: the chunks of _chunk_text, concatenated in order and with all
\* whitespace other than line breaks deleted, are the line-ending-normalized
\* input with that whitespace deleted: every other character and every line
\* break is there once, in the original order.
C30_ContentPreserved ==
    fn_pc = "chunked" =>
        Content(Join(fn_out.chunks)) = Content(NormalizeNewlines(fn_in))

\* Two sentences and a line break: the space at the chunk boundary is
\* dropped, nothing else.
C30_Witness ==
    /\ fn_pc = "chunked"
    /\ fn_in = <<".", "SP", "a", "CR">>
    /\ fn_out.chunks = <<<<".">>, <<"a">>, <<"LF">>>>

-----------------------------------------------------------------------------
(***************************************************************************)
(* The dispatcher (src/main.py): the AppController on the UI thread hands  *)
(* requests to the EngineWorker on its QThread through queued connections, *)
(* and the worker hands its signals back the same way.                     *)
(***************************************************************************)

\* How many requests the user makes.
MaxRequests == 2

\* A request the user makes is one of 1..MaxRequests; each F3 request may
\* be followed by one request of _on_image_done (line 1167).
ReqIds == 1..(2 * MaxRequests)

\* Selected or typed texts: an English one, a Chinese one.
AppTexts == {<<"a">>, <<"ta">>}

\* The texts typed in the F2 popup, committed from it, translated in the
\* dashboard and asked in the chat window.
TypedTexts == {<<"a">>}
CommitTexts == {<<"ta">>}
DashTexts == {<<"a">>}
ChatTexts == {<<"a">>}

\* What the recognizer reads in a screenshot: nothing, or a text.
AppImages == {<<>>, <<"a">>}

\* How the vocabulary models and the translator behave during one call.
AppEnvs ==
    {[enc |-> "pieces", tr |-> t, dec |-> "ok"] : t \in {"echo", "empty_hyp", "raise"}}

\* main() (lines 1392-1399, 1437-1442): the flavor decides the backend of
\* the engine, so the backend tells the flavor.
Flavor ==
    IF mt_backend = "nllb" THEN "nllb" ELSE IF mt_backend = "none" THEN "qwen" ELSE "opus"

\* The installations looked at: the backend, whether its models, the
\* recognizer and the local model file are there, whether the settings
\* enable the LLM API and hold a profile for it.  main() hands the path
\* of the local model to the controller in the flavor qwen only (line
\* 1527).
AppSetups ==
    {[mt_backend |-> "opus", ready |-> TRUE, ocr_ready |-> TRUE, local_qwen |-> "None", llm_enabled |-> FALSE, llm_cfg |-> "None"],
     [mt_backend |-> "opus", ready |-> FALSE, ocr_ready |-> FALSE, local_qwen |-> "None", llm_enabled |-> TRUE, llm_cfg |-> "LlmConfig"],
     [mt_backend |-> "nllb", ready |-> TRUE, ocr_ready |-> TRUE, local_qwen |-> "None", llm_enabled |-> FALSE, llm_cfg |-> "None"],
     [mt_backend |-> "nllb", ready |-> FALSE, ocr_ready |-> FALSE, local_qwen |-> "None", llm_enabled |-> FALSE, llm_cfg |-> "None"],
     [mt_backend |-> "none", ready |-> FALSE, ocr_ready |-> TRUE, local_qwen |-> "LocalQwen", llm_enabled |-> FALSE, llm_cfg |-> "None"],
     [mt_backend |-> "none", ready |-> FALSE, ocr_ready |-> TRUE, local_qwen |-> "None", llm_enabled |-> TRUE, llm_cfg |-> "None"]}

\* AppController.__init__ (lines 789-816) after main() built the engine:
\* nothing pending, the worker idle.
InitApp ==
    /\ InitEngine
    /\ FnIdle
    /\ \E setup \in AppSetups :
          /\ mt_backend = setup.mt_backend
          /\ en2zh_ready = setup.ready /\ zh2en_ready = setup.ready
          /\ ocr_ready = setup.ocr_ready
          /\ local_qwen = setup.local_qwen
          /\ llm_enabled = setup.llm_enabled
          /\ llm_cfg = setup.llm_cfg
    /\ busy_image = FALSE /\ next_req_id = 1 /\ pending = <<>> /\ f2_req_id = 0
    /\ capturing = FALSE
    /\ worker_queue = <<>> /\ ui_queue = <<>> /\ running = NoSlot
    /\ emitted = <<>> /\ started = <<>> /\ recorded = <<>> /\ shown = <<>>

\* d[k] = v / d.pop(k)
Put(d, k, v) == [r \in DOMAIN d \cup {k} |-> IF r = k THEN v ELSE d[r]]

Pop(d, k) == [r \in DOMAIN d \ {k} |-> d[r]]

\* d.pop(k, ("", None))
ModeOf(d, k) == IF k \in DOMAIN d THEN d[k] ELSE [mode |-> "", is_zh |-> FALSE]

\* Qt.QueuedConnection (lines 805-815): the call is posted to the event
\* queue of the receiver's thread, behind the calls posted before.
\* Faulty variant: the call is put in front of the waiting ones.
PostFirst(queue, ev) == <<ev>> \o queue

Post(queue, ev) == Append(queue, ev)

\* self._worker.moveToThread(self._thread) (line 804): the thread a slot of
\* the worker runs on.
SlotThread == "worker"

\* req_id = self._alloc_req_id(); self._pending[req_id] = (mode, payload);
\* self.request_<slot>.emit(req_id, ...)
RequestFrom(left, slot, text, src_lang, tgt_lang, use_api, mode) ==
    /\ next_req_id' = next_req_id + 1
    /\ pending' = Put(left, next_req_id, [mode |-> mode, is_zh |-> HasZh(text)])
    /\ worker_queue' = Post(worker_queue,
                            [slot |-> slot, req_id |-> next_req_id, text |-> text,
                             src_lang |-> src_lang, tgt_lang |-> tgt_lang,
                             use_api |-> use_api, stage |-> "begin"])
    /\ emitted' = Append(emitted, next_req_id)

Request(slot, text, src_lang, tgt_lang, use_api, mode) ==
    RequestFrom(pending, slot, text, src_lang, tgt_lang, use_api, mode)

LlmMode(mode) ==
    CASE mode = "F1" -> "F1_LLM"
      [] mode = "F2" -> "F2_LLM"
      [] mode = "F2_COMMIT" -> "F2_COMMIT_LLM"
      [] OTHER -> "DASH_LLM"

\* The request of F1, F2 and the F2 commit (lines 941-953, 1010-1021,
\* 1303-1314).
TextRequest(mode, text) ==
    IF Flavor = "qwen"
    THEN Request("llm_translate", text, "", "", FALSE, LlmMode(mode))
    ELSE Request(IF HasZh(text) THEN "translate_zh2en" ELSE "translate_en2zh",
                 text, "", "", FALSE, mode)

\* AppController._poll_f1_clipboard with a selected text (lines 936-954).
PollF1Clipboard(text) ==
    /\ next_req_id <= MaxRequests
    /\ TextRequest("F1", text)
    /\ UNCHANGED <<engineVars, fnVars, busy_image, f2_req_id, capturing, llm_enabled, local_qwen, llm_cfg, ui_queue, running, started, recorded, shown>>

\* _enter of AppController.on_hotkey_f2 (lines 1006-1021).
F2Enter(text) ==
    /\ next_req_id <= MaxRequests
    /\ f2_req_id' = next_req_id
    /\ TextRequest("F2", text)
    /\ UNCHANGED <<engineVars, fnVars, busy_image, capturing, llm_enabled, local_qwen, llm_cfg, ui_queue, running, started, recorded, shown>>

\* AppController._on_f2_confirmed (lines 1296-1314).
OnF2Confirmed(text) ==
    /\ next_req_id <= MaxRequests
    /\ TextRequest("F2_COMMIT", text)
    /\ UNCHANGED <<engineVars, fnVars, busy_image, f2_req_id, capturing, llm_enabled, local_qwen, llm_cfg, ui_queue, running, started, recorded, shown>>

\* guess_src_lang of _dashboard_translate (lines 1251-1260).
GuessSrcLang(text) == IF HasZh(text) THEN "zho_Hans" ELSE "eng_Latn"

\* AppController._dashboard_translate (lines 1224-1294) for the target
\* languages "auto" and "en".  The req_id is taken at line 1231, before the
\* branches that return without a request.
DashboardTranslate(src, target_lang) ==
    /\ next_req_id <= MaxRequests
    /\ IF Flavor = "qwen"
       THEN Request("llm_translate", src, "", "", FALSE, "DASH_LLM")
       ELSE IF Flavor = "nllb"
       THEN \E tgt_lang \in {IF target_lang = "auto"
                             THEN (IF GuessSrcLang(src) = "zho_Hans" THEN "eng_Latn" ELSE "zho_Hans")
                             ELSE "eng_Latn"} :
               IF tgt_lang = GuessSrcLang(src)
               THEN /\ next_req_id' = next_req_id + 1
                    /\ UNCHANGED <<pending, worker_queue, emitted>>
               ELSE Request("translate_nllb", src, GuessSrcLang(src), tgt_lang, FALSE, "DASH")
       ELSE IF target_lang = "en" /\ ~HasZh(src)
       THEN /\ next_req_id' = next_req_id + 1
            /\ pending' = Put(pending, next_req_id, [mode |-> "DASH", is_zh |-> FALSE])
            /\ UNCHANGED <<worker_queue, emitted>>
       ELSE Request(IF HasZh(src) THEN "translate_zh2en" ELSE "translate_en2zh",
                    src, "", "", FALSE, "DASH")
    /\ UNCHANGED <<engineVars, fnVars, busy_image, f2_req_id, capturing, llm_enabled, local_qwen, llm_cfg, ui_queue, running, started, recorded, shown>>

\* AppController._on_chat_message (lines 1344-1374) with a question.
OnChatMessage(q) ==
    /\ next_req_id <= MaxRequests
    /\ IF Flavor = "qwen" THEN local_qwen # "None" \/ llm_enabled ELSE llm_enabled
    /\ Request("llm_chat", q, "", "", IF Flavor = "qwen" THEN llm_enabled ELSE TRUE, "CHAT")
    /\ UNCHANGED <<engineVars, fnVars, busy_image, f2_req_id, capturing, llm_enabled, local_qwen, llm_cfg, ui_queue, running, started, recorded, shown>>

\* AppController.on_hotkey_f3 (lines 1026-1032) when it opens the snipping
\* overlay; when an image request is busy it returns at line 1031.
OnHotkeyF3 ==
    /\ next_req_id <= MaxRequests
    /\ ~busy_image
    /\ ~capturing
    /\ capturing' = TRUE
    /\ UNCHANGED <<engineVars, fnVars, busy_image, next_req_id, pending, f2_req_id, llm_enabled, local_qwen, llm_cfg, worker_queue, ui_queue, running, emitted, started, recorded, shown>>

\* AppController._on_screenshot_canceled (lines 1047-1049).
OnScreenshotCanceled ==
    /\ capturing
    /\ capturing' = FALSE
    /\ busy_image' = FALSE
    /\ UNCHANGED <<engineVars, fnVars, next_req_id, pending, f2_req_id, llm_enabled, local_qwen, llm_cfg, worker_queue, ui_queue, running, emitted, started, recorded, shown>>

\* AppController._on_screenshot_captured (lines 1051-1060); image is what
\* the recognizer will read in the screenshot.
OnScreenshotCaptured(image) ==
    /\ capturing
    /\ capturing' = FALSE
    /\ IF busy_image
       THEN UNCHANGED <<busy_image, next_req_id, pending, worker_queue, emitted>>
       ELSE /\ busy_image' = TRUE
            /\ Request("process_image", image, "", "", FALSE, "F3")
    /\ UNCHANGED <<engineVars, fnVars, f2_req_id, llm_enabled, local_qwen, llm_cfg, ui_queue, running, started, recorded, shown>>

\* The signals of EngineWorker (lines 568-571) with their arguments.
Signal(sig, req_id, source, translated, error) ==
    [sig |-> sig, req_id |-> req_id, source |-> source, translated |-> translated, error |-> error]

\* self.<signal>.emit(...) as the last statement of a slot: the signal is
\* posted to the UI thread and the slot returns.
Emit(ev) ==
    /\ ui_queue' = Post(ui_queue, ev)
    /\ running' = NoSlot

\* An exception leaves the slot: nothing is emitted, the event loop of the
\* thread goes on.
Escapes ==
    /\ running' = NoSlot
    /\ UNCHANGED ui_queue

\* Whether a slot calls the CoreEngine (lines 598, 609, 617, 740).
CallsEngine(job) ==
    \/ job.slot \in {"translate_nllb", "process_image"}
    \/ job.slot \in {"translate_en2zh", "translate_zh2en"} /\ local_qwen = "None"

\* The event loop of the worker thread takes the oldest posted call and
\* enters the slot.
WorkerInvoke ==
    /\ running = NoSlot
    /\ worker_queue # <<>>
    /\ running' = Head(worker_queue)
    /\ worker_queue' = Tail(worker_queue)
    /\ started' = IF CallsEngine(Head(worker_queue))
                  THEN Append(started, [req_id |-> Head(worker_queue).req_id,
                                        slot |-> Head(worker_queue).slot,
                                        thread |-> SlotThread])
                  ELSE started
    /\ UNCHANGED <<engineVars, fnVars, busy_image, next_req_id, pending, f2_req_id, capturing, llm_enabled, local_qwen, llm_cfg, ui_queue, emitted, recorded, shown>>

\* What LocalQwen.translate and LocalQwen.chat give: a text, nothing, an
\* exception.
QwenOutcomes == {"text", "empty", "raise"}

LlmOut == <<"hao">>

\* Lines 595-596 and 606-607 with 599-601, 610-612: the local model in
\* the place of the engine.  (The controller sends a text to these slots
\* in the flavors opus and nllb only, where the worker has no local
\* model.)
LocalTranslate ==
    /\ \E o \in QwenOutcomes :
          Emit(IF o = "raise"
               THEN Signal("failed", running.req_id, <<>>, <<>>, "local model failed")
               ELSE Signal("text_done", running.req_id, <<>>, IF o = "text" THEN LlmOut ELSE <<>>, ""))
    /\ UNCHANGED <<engineVars, fnVars, busy_image, next_req_id, pending, f2_req_id, capturing, llm_enabled, local_qwen, llm_cfg, worker_queue, emitted, started, recorded, shown>>

\* The engine method the slot the worker is in calls next: lines 598,
\* 609 and 617 of the text slots, and inside process_image (line 740) the
\* translate call of CoreEngine.process_image (lines 147-156 of
\* core_engine.py), whose direction follows the recognized text.
EngineCallDue ==
    CASE running.slot = "translate_en2zh" -> "en2zh"
      [] running.slot = "translate_zh2en" -> "zh2en"
      [] running.slot = "translate_nllb" -> "nllb"
      [] running.slot = "process_image" /\ running.stage = "translate" ->
            IF HasZh(running.text) THEN "zh2en" ELSE "en2zh"
      [] OTHER -> "none"

\* The worker makes that call: self._engine.translate_en2zh(text),
\* translate_zh2en(text) or translate_nllb(text, src_lang, tgt_lang); in
\* the slots translate_en2zh and translate_zh2en the local model takes
\* the place of the engine when there is one (lines 594-596, 605-607).
WorkerEngineCall ==
    /\ EngineCallDue # "none"
    /\ IF running.slot \in {"translate_en2zh", "translate_zh2en"} /\ local_qwen # "None"
       THEN LocalTranslate
       ELSE \E env \in AppEnvs :
               CASE EngineCallDue = "en2zh" -> TranslateEn2Zh(running.text, env)
                 [] EngineCallDue = "zh2en" -> TranslateZh2En(running.text, env)
                 [] OTHER -> TranslateNllb(running.text, running.src_lang, running.tgt_lang, env)

\* The error the engine call that has just returned handed to _set_error
\* ("" when it handed none): translate_en2zh and translate_zh2en record
\* one for a non-blank text when the backend is disabled or not ready
\* (the call did not run the pipeline) or when the pipeline raised.
RecordedBy(c) ==
    IF c.op = "en2zh" /\ NormalizeEnglishInput(c.text) # <<>> /\ (~c.ran \/ Guarded(c.run).failed)
    THEN en2zh_error
    ELSE IF c.op = "zh2en" /\ Strip(c.text) # <<>> /\ (~c.ran \/ Guarded(c.run).failed)
    THEN zh2en_error
    ELSE ""

\* Lines 599-601, 610-612, 618-620: the engine call returned or raised.
WorkerTranslateReturn ==
    /\ running.slot \in {"translate_en2zh", "translate_zh2en", "translate_nllb"}
    /\ call.op # "none"
    /\ Emit(IF call.raised
            THEN Signal("failed", running.req_id, <<>>, <<>>, call.exc.msg)
            ELSE Signal("text_done", running.req_id, <<>>, call.ret, ""))
    /\ recorded' = Put(recorded, running.req_id, RecordedBy(call))
    /\ call' = NoCall
    /\ UNCHANGED <<configVars, errorVars, fnVars, busy_image, next_req_id, pending, f2_req_id, capturing, llm_enabled, local_qwen, llm_cfg, worker_queue, emitted, started, shown>>

\* _run_local of llm_translate and _run_local_chat of llm_chat (lines
\* 639-648, 697-711).
RunLocal(done) ==
    IF local_qwen = "None"
    THEN Emit(Signal("failed", running.req_id, <<>>, <<>>, "Missing local model file"))
    ELSE \E o \in QwenOutcomes :
            Emit(IF o = "raise"
                 THEN Signal("failed", running.req_id, <<>>, <<>>, "local model failed")
                 ELSE Signal(done, running.req_id, <<>>, IF o = "text" THEN LlmOut ELSE <<>>, ""))

\* The API paths of llm_translate and llm_chat (lines 654-682, 717-735).
\* EngineWorker has no field _flavor (its __init__, lines 573-590, sets
\* none): reading self._flavor at lines 656, 679, 718 and 732 raises
\* AttributeError, outside a try block or inside the except clause.
RunApi(done) ==
    IF llm_cfg = "None"
    THEN Escapes
    ELSE \E o \in {"text", "error"} :
            IF o = "text"
            THEN Emit(Signal(done, running.req_id, <<>>, LlmOut, ""))
            ELSE Escapes

\* EngineWorker.llm_translate (lines 635-682).
LlmTranslate ==
    /\ running.slot = "llm_translate"
    /\ IF ~running.use_api THEN RunLocal("text_done")
       ELSE IF llm_cfg # "None" /\ Strip(running.text) = <<>>
       THEN Emit(Signal("text_done", running.req_id, <<>>, <<>>, ""))
       ELSE RunApi("text_done")
    /\ UNCHANGED <<engineVars, fnVars, busy_image, next_req_id, pending, f2_req_id, capturing, llm_enabled, local_qwen, llm_cfg, worker_queue, emitted, started, recorded, shown>>

\* EngineWorker.llm_chat (lines 684-735) with the payload of
\* _on_chat_message.
LlmChat ==
    /\ running.slot = "llm_chat"
    /\ IF Strip(running.text) = <<>>
       THEN Emit(Signal("chat_done", running.req_id, <<>>, <<>>, ""))
       ELSE IF ~running.use_api THEN RunLocal("chat_done")
       ELSE RunApi("chat_done")
    /\ UNCHANGED <<engineVars, fnVars, busy_image, next_req_id, pending, f2_req_id, capturing, llm_enabled, local_qwen, llm_cfg, worker_queue, emitted, started, recorded, shown>>

\* CoreEngine.ocr_image and the head of process_image (lines 127-146):
\* the recognizer reads running.text; without a text, or without a
\* backend, process_image returns and the slot emits image_done.
ProcessImageOcr ==
    /\ running.slot = "process_image"
    /\ running.stage = "begin"
    /\ \E source_text \in {IF ocr_ready THEN NormalizeOcrText(running.text) ELSE <<>>} :
          /\ IF ocr_ready THEN UNCHANGED errorVars
             ELSE /\ last_error' = NotReadyMsg(ocr_error, "OCR not ready")
                  /\ ocr_error' = NotReadyMsg(ocr_error, "OCR not ready")
                  /\ UNCHANGED <<en2zh_error, zh2en_error>>
          /\ IF source_text = <<>>
             THEN Emit(Signal("image_done", running.req_id, <<>>, <<>>,
                              IF ocr_ready THEN NotReadyMsg(ocr_error, "No text detected")
                              ELSE NotReadyMsg(ocr_error, "OCR not ready")))
             ELSE IF mt_backend = "none"
             THEN Emit(Signal("image_done", running.req_id, source_text, <<>>, ""))
             ELSE /\ running' = [slot |-> running.slot, req_id |-> running.req_id, text |-> source_text,
                                 src_lang |-> "", tgt_lang |-> "", use_api |-> FALSE, stage |-> "translate"]
                  /\ UNCHANGED ui_queue
    /\ UNCHANGED <<configVars, call, fnVars, busy_image, next_req_id, pending, f2_req_id, capturing, llm_enabled, local_qwen, llm_cfg, worker_queue, emitted, started, recorded, shown>>

\* Lines 149-156 and 741: process_image returns the text and its
\* translation, or the error of the direction as the target (the error
\* argument of the signal here), and the slot emits; an exception of the
\* translate call leaves process_image and the slot emits failed (lines
\* 742-743).
ProcessImageReturn ==
    /\ running.slot = "process_image"
    /\ call.op # "none"
    /\ Emit(IF call.raised
            THEN Signal("failed", running.req_id, <<>>, <<>>, call.exc.msg)
            ELSE Signal("image_done", running.req_id, running.text, call.ret,
                        IF call.ret # <<>> THEN ""
                        ELSE NotReadyMsg(IF call.op = "zh2en" THEN zh2en_error ELSE en2zh_error,
                                         "No translation result")))
    /\ call' = NoCall
    /\ UNCHANGED <<configVars, errorVars, fnVars, busy_image, next_req_id, pending, f2_req_id, capturing, llm_enabled, local_qwen, llm_cfg, worker_queue, emitted, started, recorded, shown>>

\* What _on_text_done shows for a request of mode m.mode whose stripped
\* translation is translated (lines 1065-1150): the translation, or for
\* F1, F2 and F2_COMMIT the error of the direction read from
\* self._engine.status(), or "No translation result".
TextShown(m, translated) ==
    IF translated # <<>> \/ m.mode \in {"DASH", "DASH_LLM"}
    THEN [from |-> "translation", msg |-> ""]
    ELSE IF m.mode \in {"F1", "F2", "F2_COMMIT"} /\ (IF m.is_zh THEN Status.zh2en_error ELSE Status.en2zh_error) # ""
    THEN [from |-> "status", msg |-> IF m.is_zh THEN Status.zh2en_error ELSE Status.en2zh_error]
    ELSE [from |-> "default", msg |-> "No translation result"]

\* AppController._on_text_done (lines 1062-1150).
OnTextDone ==
    /\ ui_queue # <<>>
    /\ Head(ui_queue).sig = "text_done"
    /\ ui_queue' = Tail(ui_queue)
    /\ pending' = Pop(pending, Head(ui_queue).req_id)
    /\ \E m \in {ModeOf(pending, Head(ui_queue).req_id)} :
          shown' = IF m.mode \in {"F2", "F2_LLM"} /\ f2_req_id # Head(ui_queue).req_id
                   THEN shown
                   ELSE Put(shown, Head(ui_queue).req_id,
                            TextShown(m, Strip(Head(ui_queue).translated)))
    /\ UNCHANGED <<engineVars, fnVars, busy_image, next_req_id, f2_req_id, capturing, llm_enabled, local_qwen, llm_cfg, worker_queue, running, emitted, started, recorded>>

\* AppController._on_image_done (lines 1152-1184).
OnImageDone ==
    /\ ui_queue # <<>>
    /\ Head(ui_queue).sig = "image_done"
    /\ ui_queue' = Tail(ui_queue)
    /\ busy_image' = FALSE
    /\ \E ev \in {Head(ui_queue)} :
          IF ModeOf(pending, ev.req_id).mode # "F3"
          THEN /\ pending' = Pop(pending, ev.req_id)
               /\ UNCHANGED <<next_req_id, worker_queue, emitted, shown>>
          ELSE IF Flavor = "qwen" /\ ev.source # <<>> /\ ev.translated = <<>> /\ ev.error = ""
          THEN /\ RequestFrom(Pop(pending, ev.req_id), "llm_translate", ev.source, "", "", FALSE, "F3_LLM")
               /\ UNCHANGED shown
          ELSE /\ pending' = Pop(pending, ev.req_id)
               /\ shown' = Put(shown, ev.req_id,
                               IF ev.translated # <<>> THEN [from |-> "translation", msg |-> ""]
                               ELSE IF ev.error # "" THEN [from |-> "error", msg |-> ev.error]
                               ELSE IF ev.source # <<>> THEN [from |-> "source", msg |-> ""]
                               ELSE [from |-> "ocr_status", msg |-> NotReadyMsg(Status.ocr_error, "No text detected")])
               /\ UNCHANGED <<next_req_id, worker_queue, emitted>>
    /\ UNCHANGED <<engineVars, fnVars, f2_req_id, capturing, llm_enabled, local_qwen, llm_cfg, running, started, recorded>>

\* AppController._on_chat_done (lines 1376-1379).
OnChatDone ==
    /\ ui_queue # <<>>
    /\ Head(ui_queue).sig = "chat_done"
    /\ ui_queue' = Tail(ui_queue)
    /\ pending' = Pop(pending, Head(ui_queue).req_id)
    /\ UNCHANGED <<engineVars, fnVars, busy_image, next_req_id, f2_req_id, capturing, llm_enabled, local_qwen, llm_cfg, worker_queue, running, emitted, started, recorded, shown>>

\* AppController._on_failed (lines 1186-1204).
OnFailed ==
    /\ ui_queue # <<>>
    /\ Head(ui_queue).sig = "failed"
    /\ ui_queue' = Tail(ui_queue)
    /\ pending' = Pop(pending, Head(ui_queue).req_id)
    /\ busy_image' = FALSE
    /\ shown' = Put(shown, Head(ui_queue).req_id, [from |-> "error", msg |-> Head(ui_queue).error])
    /\ UNCHANGED <<engineVars, fnVars, next_req_id, f2_req_id, capturing, llm_enabled, local_qwen, llm_cfg, worker_queue, running, emitted, started, recorded>>

\* What the user does.
UserStep ==
    \/ \E text \in AppTexts : PollF1Clipboard(text)
    \/ \E text \in TypedTexts : F2Enter(text)
    \/ \E text \in CommitTexts : OnF2Confirmed(text)
    \/ \E src \in DashTexts, target_lang \in {"auto", "en"} : DashboardTranslate(src, target_lang)
    \/ \E q \in ChatTexts : OnChatMessage(q)
    \/ OnHotkeyF3
    \/ OnScreenshotCanceled
    \/ \E image \in AppImages : OnScreenshotCaptured(image)

\* What the worker thread does: its event loop runs one slot at a time.
WorkerStep ==
    \/ WorkerInvoke
    \/ WorkerEngineCall
    \/ WorkerTranslateReturn
    \/ LlmTranslate
    \/ LlmChat
    \/ ProcessImageOcr
    \/ ProcessImageReturn

\* What the event loop of the UI thread does with the worker's signals.
UiStep == OnTextDone \/ OnImageDone \/ OnChatDone \/ OnFailed

NextApp == UserStep \/ WorkerStep \/ UiStep

SpecApp == InitApp /\ [][NextApp]_vars


\* ---------------------------------------------------------------------
\* C26: the dispatcher serializes the engine calls.

StartedIds == [i \in DOMAIN started |-> started[i].req_id]

WasStarted(r) == \E i \in DOMAIN started : started[i].req_id = r

\* C26: every translate_en2zh, translate_zh2en, translate_nllb and
\* process_image call on the CoreEngine runs in a slot of the worker
\* thread, reached through a queued connection: an engine call in
\* progress is the call of the one slot the worker is in, so that no two
\* overlap, and the calls begin in the order in which the controller
\* emitted their requests.
C26_EngineCallsSerialized ==
    /\ \A i \in DOMAIN started : started[i].thread = "worker"
    /\ call.op # "none" =>
          /\ running # NoSlot
          /\ CallsEngine(running)
          /\ started # <<>>
          /\ started[Len(started)].req_id = running.req_id
    /\ SelectSeq(emitted, WasStarted) = StartedIds

\* An engine call of the first request is in progress while the request
\* emitted after it, which calls the engine too, waits in the queue.
C26_Witness ==
    /\ call.op # "none"
    /\ running.req_id = 1
    /\ worker_queue # <<>>
    /\ CallsEngine(Head(worker_queue))
    /\ Head(worker_queue).req_id = 2


\* ---------------------------------------------------------------------
\* C27: every dispatched request is answered.

WasEmitted(r) == \E i \in DOMAIN emitted : emitted[i] = r

Waiting(r) == \E i \in DOMAIN worker_queue : worker_queue[i].req_id = r

Signalled(r) == \E i \in DOMAIN ui_queue : ui_queue[i].req_id = r

\* C27: every request the controller emitted to the EngineWorker is
\* answered by one completion signal with its req_id, also on the API
\* paths without a configured API or with a failing API call: as long as
\* its entry is in the pending table the request waits in the queue of
\* the worker, or is in its slot, or its signal is on the way to the
\* controller, which removes the entry.  (Only the slot of a request
\* emits its signal: a pending request in none of the three places is
\* never answered.)
C27_EveryRequestAnswered ==
    \A r \in DOMAIN pending :
        WasEmitted(r) => Waiting(r) \/ running.req_id = r \/ Signalled(r)

\* No request is answered twice: a request has at most one signal on the
\* way, and none while it waits or is in its slot.
C27_AtMostOneSignal ==
    \A r \in ReqIds :
        /\ Cardinality({i \in DOMAIN ui_queue : ui_queue[i].req_id = r}) <= 1
        /\ Signalled(r) => ~Waiting(r) /\ running.req_id # r /\ r \in DOMAIN pending


\* ---------------------------------------------------------------------
\* C28: the error shown for an empty translation.

\* C28: when a text request of F1, F2 or the F2 commit ends with an empty
\* translation, the message the controller takes from engine.status() on
\* the UI thread is the error which the engine call of that same request
\* recorded, not one left by an earlier call or written by a later one.
C28_ShownErrorIsOwn ==
    \A r \in DOMAIN shown :
        shown[r].from = "status" => r \in DOMAIN recorded /\ recorded[r] = shown[r].msg


\* ---------------------------------------------------------------------
\* C29: the busy flag of the image requests.

ImagePending == {r \in DOMAIN pending : pending[r].mode = "F3"}

\* C29: _busy_image is true exactly while an F3 image request is pending
\* on the worker, so that at most one image request is in flight; the
\* completion or failure of a text or chat request does not clear it.
C29_BusyWhileImagePending ==
    /\ busy_image <=> ImagePending # {}
    /\ Cardinality(ImagePending) <= 1

=============================================================================
